---- MODULE Spec2Model ----
(***************************************************************************)
(* TwitchDropsMiner, twitch.py: the Twitch orchestrator.                   *)
(*                                                                         *)
(* One asyncio event loop runs the tasks of class Twitch: run() (the state *)
(* machine), _watch_loop(), _maintenance_loop() and one handler task per   *)
(* websocket message (process_stream_state, process_drops).  A task keeps  *)
(* the processor between two awaits, so every action below is the code of  *)
(* one task from one suspension point to the next.  run() does not yield   *)
(* at `await self._state_change.wait()` while the flag is set: runPc =     *)
(* "loop" means run() holds the processor at the top of its while loop,    *)
(* and no other task steps then.                                           *)
(*                                                                         *)
(* Optional values (T | None) are sequences: <<>> is None, <<x>> is x.     *)
(* Objects are identified by their ids: a Channel, DropsCampaign or        *)
(* TimedDrop is its id, its fields are the functions chan, camp, minutes   *)
(* and claim_state.                                                        *)
(***************************************************************************)
EXTENDS Integers, Sequences, FiniteSets, TLC

\* ---------------------------------------------------------------- bounds
NumChannels == 3      \* channel ids 1..NumChannels exist on the platform
MaxViewers == 1       \* viewer counts reported are 0..MaxViewers
MaxMinutes == 2       \* minutes a drop requires; progress is 0..MaxMinutes
MaxEndsAt == 2        \* campaign end times are 1..MaxEndsAt
MaxAttempts == 5      \* request() is called with attempts in 1..MaxAttempts

\* websocket capacity (constants.py), scaled so that CHANNELS_FETCH overflows
MAX_WEBSOCKETS == 1
WS_TOPICS_LIMIT == 4

\* _maintenance_loop fetches the inventory every 60th iteration and wraps
\* its counter at 3600, a multiple of 60; both scaled
InventoryPeriod == 2
CounterWrap == 2

\* ------------------------------------------------------------- universes
None == <<>>
Some(x) == <<x>>
Opt(S) == {None} \cup {Some(x) : x \in S}

ChannelIds == 1..NumChannels
GameNames == {"g1", "g2"}
CampaignIds == {"X", "Y", "Z"}
DropIds == {"dX", "dY", "dZ"}
UntrackedDrop == "dU"          \* a drop id no campaign of the account holds
DropOf(c) == CASE c = "X" -> "dX" [] c = "Y" -> "dY" [] OTHER -> "dZ"
CampaignOf(d) == CASE d = "dX" -> "X" [] d = "dY" -> "Y" [] OTHER -> "Z"

Range(f) == {f[i] : i \in DOMAIN f}
Min(a, b) == IF a <= b THEN a ELSE b
Contains(s, x) == \E i \in DOMAIN s : s[i] = x
Prefix(s, n) == SubSeq(s, 1, Min(n, Len(s)))

\* list.sort(key=K) and sorted(..., key=K): a stable sort, ascending by K.
\* reverse=True sorts descending and keeps equal elements in their order,
\* which is the stable ascending sort by the negated key.
RECURSIVE Insert(_, _, _)
Insert(x, s, K) ==
    IF s = <<>> THEN <<x>>
    ELSE IF K[s[Len(s)]] <= K[x] THEN Append(s, x)
    ELSE Append(Insert(x, SubSeq(s, 1, Len(s) - 1), K), s[Len(s)])
RECURSIVE StableSort(_, _)
StableSort(s, K) ==
    IF s = <<>> THEN <<>>
    ELSE Insert(s[Len(s)], StableSort(SubSeq(s, 1, Len(s) - 1), K), K)

\* ------------------------------------------------------------------ state
VARIABLES
    \* the world outside the process: settings and backend data
    settings,          \* [priority_only, exclude, priority, priorities]
    camp,              \* campaign id -> what the backend reports of it
    ongoing,           \* dropCampaignsInProgress: a list of campaign ids
    available,         \* dropCampaigns (the catalog): a list of campaign ids
    platform,          \* channel id -> the stream the platform reports
    reports,           \* drop id -> what the backend may report of it
    claimable,         \* the drops a drop-claim message may announce
    audience,          \* the viewer counts a viewcount message may carry
    \* Twitch.__init__
    _state, _state_change, games, inventory, _drops,
    channels, watching_channel, _watching_restart, _drop_update,
    \* the objects the collections hold
    chan,              \* channel id -> Channel fields
    minutes,           \* drop id -> TimedDrop.current_minutes
    claim_state,       \* drop id -> "none" | "claimable" | "claimed"
    topics,            \* websocket: the subscribed StreamState channel ids
    selection,         \* gui.channels selection: Opt(channel id)
    \* run(): position and locals
    runPc, full_cleanup, campaigns, idx, new_channels, acl_channels, no_acl,
    \* _watch_loop(): position, locals, and what the cycle has done
    watchPc, w_channel, future, cycle,
    \* _maintenance_loop()
    mntPc, mnt_i,
    \* process_drops() of a drop-claim message: position and the locals
    \* `drop` and `mined`
    claimPc, c_drop, c_mined,
    \* _login(): position, the login form, locals, and the stored token
    loginPc, login_form, payload, attempt, login_response, _access_token,
    rejected,          \* a submission of this flow was answered 3001
    \* check_login(): position, locals, the cookie jar and the session
    checkPc, check_attempt, jar, cookie, status, _user_id, _is_logged_in,
    validations,       \* the validation requests this call has sent
    \* request(): position, the parameter `attempts`, the locals `attempt`
    \* and `cause`, and the events of the call so far
    reqPc, attempts, req_attempt, cause, log

envVars == <<settings, camp, ongoing, available, platform, reports,
            claimable, audience>>
coreVars == <<_state, _state_change, games, inventory, _drops, channels,
              watching_channel, _watching_restart, _drop_update>>
objVars == <<chan, minutes, claim_state, topics, selection>>
runVars == <<runPc, full_cleanup, campaigns, idx, new_channels, acl_channels,
             no_acl>>
watchVars == <<watchPc, w_channel, future, cycle>>
mntVars == <<mntPc, mnt_i>>
claimVars == <<claimPc, c_drop, c_mined>>
checkVars == <<checkPc, check_attempt, jar, cookie, status, _user_id,
               _is_logged_in, validations>>
reqVars == <<reqPc, attempts, req_attempt, cause, log>>
loginVars == <<loginPc, login_form, payload, attempt, login_response,
               _access_token, rejected, checkVars, reqVars>>
vars == <<envVars, coreVars, objVars, runVars, watchVars, mntVars, claimVars,
          loginVars>>

\* ------------------------------------------------- campaigns and drops
\* inventory.py is not part of the sources; can_earn, can_claim, claim,
\* update_minutes and bump_minutes follow the specification's data model.
Statuses == {"ACTIVE", "UPCOMING", "EXPIRED"}
Times == {"upcoming", "active", "expired"}
\* what the backend reports of a drop: its progress and its claim
DropReports ==
    {[minutes |-> m, claim |-> "none"] : m \in 0..(MaxMinutes - 1)}
    \cup {[minutes |-> MaxMinutes, claim |-> c] : c \in {"claimable", "claimed"}}

upcoming(c) == camp[c].time = "upcoming"

\* the drops of the campaigns the backend lists for the account
KnownDrops == {DropOf(c) : c \in Range(ongoing) \cup Range(available)}

\* DropsCampaign._base_can_earn(channel): linked, inside its time window,
\* and the channel (when one is given) is allowed
campaign_base_can_earn(c, channel) ==
    /\ camp[c].linked
    /\ camp[c].time = "active"
    /\ \/ channel = None
       \/ camp[c].allowed_channels = {}
       \/ channel[1] \in camp[c].allowed_channels

\* TimedDrop._base_can_earn() over the drop fields mins, claims
drop_base_can_earn(d, mins, claims) ==
    claims[d] # "claimed" /\ mins[d] < MaxMinutes

\* DropsCampaign.can_earn(channel) over the drop fields mins, claims
campaign_can_earn_with(c, channel, mins, claims) ==
    /\ campaign_base_can_earn(c, channel)
    /\ drop_base_can_earn(DropOf(c), mins, claims)

campaign_can_earn(c, channel) ==
    campaign_can_earn_with(c, channel, minutes, claim_state)

\* TimedDrop.can_earn(channel)
drop_can_earn(d, channel) ==
    /\ drop_base_can_earn(d, minutes, claim_state)
    /\ campaign_base_can_earn(CampaignOf(d), channel)

\* ---------------------------------------------------------------- channels
\* the stream the platform reports of a channel: offline channels have
\* neither viewers nor a game
StreamData ==
    {[online |-> TRUE, viewers |-> Some(v), game |-> g, drops_enabled |-> e] :
        v \in 0..MaxViewers, g \in Opt(GameNames), e \in BOOLEAN}
    \cup {[online |-> FALSE, viewers |-> None, game |-> None, drops_enabled |-> e] :
        e \in BOOLEAN}

\* a Channel object built for channel id c from the platform's stream data
NewChannel(c, priority) ==
    [id |-> c, online |-> platform[c].online, viewers |-> platform[c].viewers,
     game |-> platform[c].game, drops_enabled |-> platform[c].drops_enabled,
     priority |-> priority]

_viewers_key_unknown_first(channel) ==
    IF channel.viewers # None THEN channel.viewers[1] ELSE MaxViewers + 1

\* Twitch._viewers_key
_viewers_key(channel) ==
    IF channel.viewers # None THEN channel.viewers[1] ELSE -1

\* Twitch._game_key
_game_key(channel) ==
    IF channel.game = None THEN 1
    ELSE IF channel.game[1] \notin DOMAIN games THEN 0
    ELSE games[channel.game[1]]

can_watch_any_campaign(channel) ==
    IF DOMAIN games = {} THEN FALSE
    ELSE /\ channel.online
         /\ channel.drops_enabled
         /\ channel.game # None /\ channel.game[1] \in DOMAIN games
         /\ inventory # <<>>

\* Twitch.can_watch
can_watch(channel) ==
    IF DOMAIN games = {} THEN FALSE
    ELSE /\ channel.online
         /\ channel.drops_enabled
         /\ channel.game # None /\ channel.game[1] \in DOMAIN games
         /\ \E i \in DOMAIN inventory :
                campaign_can_earn(inventory[i], Some(channel.id))

change_state_overwrite(state) ==
    /\ _state' = state
    /\ _state_change' = TRUE

\* Twitch.change_state
change_state(state) ==
    /\ _state' = IF _state # "EXIT" THEN state ELSE _state
    /\ _state_change' = TRUE

\* run() is suspended (or not started, or over): the other tasks may step
Yielded == runPc \notin {"loop", "cf_games", "done"}

\* run() has started the websocket and the two loops, and has not returned
Started == runPc \notin {"start", "done"}

AfterHandler_blocks == runPc' = "wait"

\* `await self._state_change.wait()` at the end of an iteration of run():
\* returns at once when the flag is set, suspends run() otherwise
AfterHandler == runPc' = IF _state_change' THEN "loop" ELSE "wait"

\* --------------------------------------------------------------- run()
NoGames == [g \in {} |-> 0]

\* the first index of s at or after k whose element satisfies P, or 0
FirstFrom(s, k, P(_)) ==
    LET hits == {i \in DOMAIN s : i >= k /\ P(s[i])}
    IN  IF hits = {} THEN 0 ELSE CHOOSE i \in hits : \A j \in hits : i <= j

\* the elements of s in order, each kept at its first occurrence only
RECURSIVE Distinct(_)
Distinct(s) ==
    IF s = <<>> THEN <<>>
    ELSE LET front == Distinct(SubSeq(s, 1, Len(s) - 1))
         IN  IF Contains(front, s[Len(s)]) THEN front
             ELSE Append(front, s[Len(s)])

\* s followed by the elements of t that s does not hold (OrderedSet.update)
Update(s, t) == Distinct(s \o t)

\* the ids of S as a list in ascending order
RECURSIVE Ascending(_)
Ascending(S) ==
    IF S = {} THEN <<>>
    ELSE LET m == CHOOSE x \in S : \A y \in S : x <= y
         IN  <<m>> \o Ascending(S \ {m})

fetch_inventory_all_available(mins, claims) ==
    LET available_campaigns ==
            SelectSeq(Distinct(available),
                      LAMBDA c : /\ camp[c].status \in {"ACTIVE", "UPCOMING"}
                                 /\ camp[c].linked)
        earnable ==
            SelectSeq(available_campaigns,
                      LAMBDA c : campaign_can_earn_with(c, None, mins, claims))
    IN  StableSort(ongoing \o earnable, [c \in CampaignIds |-> camp[c].ends_at])

\* fetch_inventory, lines 869-897: the campaigns list it builds from the
\* two responses, with the drops as the backend reports them (mins, claims)
fetch_inventory_campaigns(mins, claims) ==
    LET existing_campaigns == Range(ongoing)
        available_campaigns ==
            SelectSeq(Distinct(available),
                      LAMBDA c : /\ camp[c].status \in {"ACTIVE", "UPCOMING"}
                                 /\ camp[c].linked
                                 /\ c \notin existing_campaigns)
        earnable ==
            SelectSeq(available_campaigns,
                      LAMBDA c : campaign_can_earn_with(c, None, mins, claims))
    IN  StableSort(ongoing \o earnable, [c \in CampaignIds |-> camp[c].ends_at])

\* State.INVENTORY_FETCH: run() suspends in fetch_inventory's requests
\* (Inventory, Campaigns and one CampaignDetails per available campaign)
InventoryFetch ==
    /\ runPc = "loop" /\ _state = "INVENTORY_FETCH"
    /\ runPc' = "inventory"
    /\ UNCHANGED <<envVars, loginVars, coreVars, objVars, watchVars, mntVars,
                   claimVars, full_cleanup, campaigns, idx, new_channels,
                   acl_channels, no_acl>>

\* fetch_inventory, lines 874-903: the responses are in; the new campaigns
\* are sorted, _drops and inventory are cleared, and the first campaign's
\* drops are indexed before `await self.gui.inv.add_campaign(campaign)`
FetchInventoryBuild ==
    /\ runPc = "inventory"
    /\ \E report \in {r \in [KnownDrops -> DropReports] :
                        \A d \in KnownDrops : r[d] \in reports[d]} :
        LET mins == [d \in DropIds |->
                        IF d \in KnownDrops THEN report[d].minutes ELSE minutes[d]]
            claims == [d \in DropIds |->
                        IF d \in KnownDrops THEN report[d].claim ELSE claim_state[d]]
            built == fetch_inventory_campaigns(mins, claims)
        IN  /\ minutes' = mins
            /\ claim_state' = claims
            /\ inventory' = <<>>
            /\ IF built = <<>>
               THEN /\ _drops' = {}
                    /\ campaigns' = <<>> /\ idx' = 0
                    /\ change_state("GAMES_UPDATE")
                    /\ AfterHandler
               ELSE /\ _drops' = {DropOf(built[1])}
                    /\ campaigns' = built /\ idx' = 1
                    /\ runPc' = "inv_add"
                    /\ UNCHANGED <<_state, _state_change>>
    /\ UNCHANGED <<envVars, loginVars, games, channels, watching_channel,
                   _watching_restart, _drop_update, chan, topics, selection,
                   watchVars, mntVars, claimVars, full_cleanup, new_channels,
                   acl_channels, no_acl>>

\* fetch_inventory, lines 901-905: add_campaign returned; the campaign is
\* appended, and the next one's drops are indexed before the next await
FetchInventoryAdd ==
    /\ runPc = "inv_add"
    /\ inventory' = Append(inventory, campaigns[idx])
    /\ IF idx < Len(campaigns)
       THEN /\ _drops' = _drops \cup {DropOf(campaigns[idx + 1])}
            /\ idx' = idx + 1
            /\ UNCHANGED <<runPc, campaigns, _state, _state_change>>
       ELSE /\ campaigns' = <<>> /\ idx' = 0
            /\ change_state("GAMES_UPDATE")
            /\ AfterHandler
            /\ UNCHANGED _drops
    /\ UNCHANGED <<envVars, loginVars, games, channels, watching_channel,
                   _watching_restart, _drop_update, objVars, watchVars,
                   mntVars, claimVars, full_cleanup, new_channels,
                   acl_channels, no_acl>>

\* GAMES_UPDATE, lines 218-231: the games of the campaigns of the inventory
collect_games(mins, claims) ==
    LET wanted(c) ==
            /\ settings.priority_only /\ camp[c].game \in settings.priority
            /\ camp[c].game \notin settings.exclude
            /\ campaign_can_earn_with(c, None, mins, claims)
        G == {camp[inventory[i]].game :
                i \in {j \in DOMAIN inventory : wanted(inventory[j])}}
    IN  [g \in G |-> IF g \in DOMAIN settings.priorities
                     THEN settings.priorities[g] ELSE 0]

\* GAMES_UPDATE, lines 212-216: the next drop of the claiming pass at or
\* after position k of the inventory that can be claimed, or 0
next_claim(k, claims) ==
    FirstFrom(inventory, k,
              LAMBDA c : ~upcoming(c) /\ claims[DropOf(c)] = "claimable")

\* GAMES_UPDATE, lines 217-234, with the claiming pass over
GamesUpdateFinish(claims) ==
    /\ games' = collect_games(minutes, claims)
    /\ full_cleanup' = TRUE
    /\ idx' = 0
    /\ change_state("CHANNELS_CLEANUP")
    /\ AfterHandler

\* State.GAMES_UPDATE up to the first `await drop.claim()`
GamesUpdate ==
    /\ runPc = "loop" /\ _state = "GAMES_UPDATE"
    /\ IF next_claim(1, claim_state) # 0
       THEN /\ games' = NoGames
            /\ idx' = next_claim(1, claim_state)
            /\ runPc' = "claim"
            /\ UNCHANGED <<_state, _state_change, full_cleanup>>
       ELSE GamesUpdateFinish(claim_state)
    /\ UNCHANGED <<envVars, loginVars, inventory, _drops, channels,
                   watching_channel, _watching_restart, _drop_update,
                   objVars, watchVars, mntVars, claimVars, campaigns,
                   new_channels, acl_channels, no_acl>>

\* drop.claim() returned in GAMES_UPDATE: a claimed drop is claimed, a
\* failed claim leaves the drop as it was; the pass goes on
GamesUpdateClaimed ==
    /\ runPc = "claim"
    /\ \E mined \in BOOLEAN :
        LET d == DropOf(inventory[idx])
            claims == IF mined /\ claim_state[d] = "claimable"
                      THEN [claim_state EXCEPT ![d] = "claimed"]
                      ELSE claim_state
        IN  /\ claim_state' = claims
            /\ IF next_claim(idx + 1, claims) # 0
               THEN /\ idx' = next_claim(idx + 1, claims)
                    /\ UNCHANGED <<runPc, games, _state, _state_change,
                                   full_cleanup>>
               ELSE GamesUpdateFinish(claims)
    /\ UNCHANGED <<envVars, loginVars, inventory, _drops, channels,
                   watching_channel, _watching_restart, _drop_update, chan,
                   minutes, topics, selection, watchVars, mntVars, claimVars,
                   campaigns, new_channels, acl_channels, no_acl>>

stop_watching_keeps == UNCHANGED watching_channel

\* Twitch.stop_watching: the watched-channel cell is cleared
stop_watching == watching_channel' = None

\* Twitch.watch
watch(channel) == watching_channel' = Some(channel.id)

Idle_forgets_channels ==
    /\ runPc = "loop" /\ _state = "IDLE"
    /\ stop_watching
    /\ channels' = <<>>
    /\ _state_change' = FALSE
    /\ AfterHandler
    /\ UNCHANGED <<envVars, loginVars, _state, games, inventory, _drops,
                   _watching_restart, _drop_update, objVars,
                   watchVars, mntVars, claimVars, full_cleanup, campaigns,
                   idx, new_channels, acl_channels, no_acl>>

\* State.IDLE, lines 200-203; the wait that follows finds the flag clear
Idle ==
    /\ runPc = "loop" /\ _state = "IDLE"
    /\ stop_watching
    /\ _state_change' = FALSE
    /\ AfterHandler
    /\ UNCHANGED <<envVars, loginVars, _state, games, inventory, _drops,
                   channels, _watching_restart, _drop_update, objVars,
                   watchVars, mntVars, claimVars, full_cleanup, campaigns,
                   idx, new_channels, acl_channels, no_acl>>

cleanup_to_remove_priority ==
    IF DOMAIN games = {} \/ full_cleanup
    THEN channels
    ELSE SelectSeq(channels,
            LAMBDA c : \/ ~chan[c].online
                       \/ chan[c].game = None
                       \/ chan[c].game[1] \notin DOMAIN games)

\* CHANNELS_CLEANUP, lines 236-252: the channels to remove
cleanup_to_remove ==
    IF DOMAIN games = {} \/ full_cleanup
    THEN channels
    ELSE SelectSeq(channels,
            LAMBDA c : /\ ~chan[c].priority
                       /\ \/ ~chan[c].online
                          \/ chan[c].game = None
                          \/ chan[c].game[1] \notin DOMAIN games)

ChannelsCleanup_keeps_topics ==
    /\ runPc = "loop" /\ _state = "CHANNELS_CLEANUP"
    /\ LET to_remove == Range(cleanup_to_remove)
       IN  /\ topics' = topics
           /\ channels' = SelectSeq(channels, LAMBDA c : c \notin to_remove)
    /\ full_cleanup' = FALSE
    /\ IF DOMAIN games # {}
       THEN change_state("CHANNELS_FETCH")
       ELSE change_state("IDLE")
    /\ AfterHandler
    /\ UNCHANGED <<envVars, loginVars, games, inventory, _drops,
                   watching_channel, _watching_restart, _drop_update, chan,
                   minutes, claim_state, selection, watchVars, mntVars,
                   claimVars, campaigns, idx, new_channels, acl_channels,
                   no_acl>>

\* State.CHANNELS_CLEANUP, lines 235-270
ChannelsCleanup ==
    /\ runPc = "loop" /\ _state = "CHANNELS_CLEANUP"
    /\ LET to_remove == Range(cleanup_to_remove)
       IN  /\ topics' = topics \ to_remove
           /\ channels' = SelectSeq(channels, LAMBDA c : c \notin to_remove)
    /\ full_cleanup' = FALSE
    /\ IF DOMAIN games # {}
       THEN change_state("CHANNELS_FETCH")
       ELSE change_state("IDLE")
    /\ AfterHandler
    /\ UNCHANGED <<envVars, loginVars, games, inventory, _drops,
                   watching_channel, _watching_restart, _drop_update, chan,
                   minutes, claim_state, selection, watchVars, mntVars,
                   claimVars, campaigns, idx, new_channels, acl_channels,
                   no_acl>>

\* CHANNELS_FETCH, lines 279-286: the campaigns that count, the channels of
\* their ACLs that are not tracked yet, and the games of those without ACL
fetch_campaigns ==
    SelectSeq(inventory,
              LAMBDA c : camp[c].game \in DOMAIN games /\ campaign_can_earn(c, None))
RECURSIVE acl_of(_)
acl_of(cs) ==
    IF cs = <<>> THEN <<>>
    ELSE Update(acl_of(SubSeq(cs, 1, Len(cs) - 1)),
                Ascending(camp[cs[Len(cs)]].allowed_channels))
fetch_acl_channels ==
    SelectSeq(acl_of(fetch_campaigns), LAMBDA c : ~Contains(channels, c))
fetch_no_acl ==
    {camp[c].game : c \in {x \in Range(fetch_campaigns) :
                              camp[x].allowed_channels = {}}}

\* State.CHANNELS_FETCH, lines 271-289: up to the gather of check_online
ChannelsFetch ==
    /\ runPc = "loop" /\ _state = "CHANNELS_FETCH"
    /\ new_channels' = channels
    /\ acl_channels' = fetch_acl_channels
    /\ no_acl' = fetch_no_acl
    /\ runPc' = IF fetch_acl_channels # <<>> THEN "acl_online" ELSE "cf_games"
    /\ UNCHANGED <<envVars, loginVars, coreVars, objVars, watchVars, mntVars,
                   claimVars, full_cleanup, campaigns, idx>>

\* CHANNELS_FETCH, lines 289-291: check_online has set every ACL channel
\* from its stream; they join the new channels
ChannelsFetchAcl ==
    /\ runPc = "acl_online"
    /\ chan' = [c \in ChannelIds |->
                  IF Contains(acl_channels, c) THEN NewChannel(c, TRUE) ELSE chan[c]]
    /\ new_channels' = Update(new_channels, acl_channels)
    /\ acl_channels' = <<>>
    /\ runPc' = "cf_games"
    /\ UNCHANGED <<envVars, loginVars, coreVars, minutes, claim_state,
                   topics, selection, watchVars, mntVars, claimVars,
                   full_cleanup, campaigns, idx, no_acl>>

\* get_live_streams(game): the live channels of the game's directory that
\* have drops enabled, as the backend lists them
get_live_streams(game) ==
    Ascending({c \in ChannelIds : /\ platform[c].online
                                  /\ platform[c].game = Some(game)
                                  /\ platform[c].drops_enabled})

\* CHANNELS_FETCH, lines 292-295: `for game in no_acl` has a game left and
\* suspends in get_live_streams
ChannelsFetchGame ==
    /\ runPc = "cf_games" /\ no_acl # {}
    /\ runPc' = "live_streams"
    /\ UNCHANGED <<envVars, loginVars, coreVars, objVars, watchVars, mntVars,
                   claimVars, full_cleanup, campaigns, idx, new_channels,
                   acl_channels, no_acl>>

\* CHANNELS_FETCH, line 295: the directory of one game of no_acl arrived;
\* a set is iterated in no fixed order
ChannelsFetchLive ==
    /\ runPc = "live_streams"
    /\ \E game \in no_acl :
        LET found == SelectSeq(get_live_streams(game),
                               LAMBDA c : ~Contains(new_channels, c))
        IN  /\ chan' = [c \in ChannelIds |->
                          IF Contains(found, c) THEN NewChannel(c, FALSE)
                          ELSE chan[c]]
            /\ new_channels' = Update(new_channels, found)
            /\ no_acl' = no_acl \ {game}
    /\ runPc' = "cf_games"
    /\ UNCHANGED <<envVars, loginVars, coreVars, minutes, claim_state,
                   topics, selection, watchVars, mntVars, claimVars,
                   full_cleanup, campaigns, idx, acl_channels>>

ordered_channels_priority_last(cs) ==
    LET by_viewers ==
            StableSort(cs, [c \in ChannelIds |-> 0 - _viewers_key(chan[c])])
        by_game ==
            StableSort(by_viewers, [c \in ChannelIds |-> _game_key(chan[c])])
    IN  StableSort(by_game,
                   [c \in ChannelIds |-> IF chan[c].priority THEN 0 ELSE 1])

\* CHANNELS_FETCH, lines 298-302: the three stable sorts
ordered_channels(cs) ==
    LET by_viewers ==
            StableSort(cs, [c \in ChannelIds |-> 0 - _viewers_key(chan[c])])
        by_priority ==
            StableSort(by_viewers,
                       [c \in ChannelIds |-> IF chan[c].priority THEN 0 ELSE 1])
    IN  StableSort(by_priority, [c \in ChannelIds |-> _game_key(chan[c])])

max_channels_unreserved == MAX_WEBSOCKETS * WS_TOPICS_LIMIT

\* CHANNELS_FETCH, line 308
max_channels == MAX_WEBSOCKETS * WS_TOPICS_LIMIT - 2

\* CHANNELS_FETCH, lines 309-310: the channels kept
trim(ordered) == Prefix(ordered, max_channels)

\* State.CHANNELS_FETCH, lines 296-349: sort, trim, unsubscribe the
\* overflow, set and subscribe the channels, relink the watched channel
ChannelsFetchFinish ==
    /\ runPc = "cf_games" /\ no_acl = {}
    /\ LET ordered == ordered_channels(new_channels)
           kept == trim(ordered)
           to_remove == {ordered[i] : i \in (Len(kept) + 1)..Len(ordered)}
       IN  /\ channels' = kept
           /\ topics' = (topics \ to_remove) \cup Range(kept)
           /\ IF watching_channel # None
              THEN IF /\ Contains(kept, watching_channel[1])
                      /\ can_watch(chan[watching_channel[1]])
                   THEN watch(chan[watching_channel[1]])
                   ELSE stop_watching
              ELSE UNCHANGED watching_channel
    /\ new_channels' = <<>>
    /\ change_state("CHANNEL_SWITCH")
    /\ AfterHandler
    /\ UNCHANGED <<envVars, loginVars, games, inventory, _drops,
                   _watching_restart, _drop_update, chan, minutes,
                   claim_state, selection, watchVars, mntVars, claimVars,
                   full_cleanup, campaigns, idx, acl_channels, no_acl>>

switch_choice_by_rank ==
    LET sorted == StableSort(channels, [c \in ChannelIds |-> _game_key(chan[c])])
        second == FirstFrom(sorted, 1, LAMBDA c : can_watch(chan[c]))
    IN  IF second # 0 THEN Some(sorted[second]) ELSE None

\* CHANNEL_SWITCH, lines 353-373: the channel to watch, or None
switch_choice ==
    LET priority_channels ==
            (IF selection # None THEN selection ELSE <<>>)
            \o (IF watching_channel # None THEN watching_channel ELSE <<>>)
        first == FirstFrom(priority_channels, 1, LAMBDA c : can_watch(chan[c]))
        sorted == StableSort(channels, [c \in ChannelIds |-> _game_key(chan[c])])
        second == FirstFrom(sorted, 1, LAMBDA c : can_watch(chan[c]))
    IN  IF first # 0 THEN Some(priority_channels[first])
        ELSE IF second # 0 THEN Some(sorted[second])
        ELSE None

\* State.CHANNEL_SWITCH, lines 350-382.  Line 375 passes the loop variable
\* `channel` to watch(): both loops break right after binding new_watching
\* to it, so it is new_watching.
ChannelSwitch ==
    /\ runPc = "loop" /\ _state = "CHANNEL_SWITCH"
    /\ selection' = None
    /\ IF switch_choice # None
       THEN /\ watch(chan[switch_choice[1]])
            /\ _state_change' = FALSE
            /\ UNCHANGED _state
       ELSE /\ change_state("IDLE")
            /\ UNCHANGED watching_channel
    /\ AfterHandler
    /\ UNCHANGED <<envVars, loginVars, games, inventory, _drops, channels,
                   _watching_restart, _drop_update, chan, minutes,
                   claim_state, topics, watchVars, mntVars, claimVars,
                   full_cleanup, campaigns, idx, new_channels, acl_channels,
                   no_acl>>

\* State.EXIT, lines 383-385: the loop breaks
Exit ==
    /\ runPc = "loop" /\ _state = "EXIT"
    /\ runPc' = "done"
    /\ UNCHANGED <<envVars, loginVars, coreVars, objVars, watchVars, mntVars,
                   claimVars, full_cleanup, campaigns, idx, new_channels,
                   acl_channels, no_acl>>

\* line 386: the state-change flag was set while run() waited for it
RunWake ==
    /\ runPc = "wait" /\ _state_change
    /\ runPc' = "loop"
    /\ UNCHANGED <<envVars, loginVars, coreVars, objVars, watchVars, mntVars,
                   claimVars, full_cleanup, campaigns, idx, new_channels,
                   acl_channels, no_acl>>

request_close_unsignalled ==
    /\ Yielded
    /\ _state' = "EXIT" /\ _state_change' = _state_change
    /\ UNCHANGED <<envVars, loginVars, games, inventory, _drops, channels,
                   watching_channel, _watching_restart, _drop_update,
                   objVars, runVars, watchVars, mntVars, claimVars>>

\* Twitch.request_close: the user closes the window, at any time
request_close ==
    /\ Yielded
    /\ change_state("EXIT")
    /\ UNCHANGED <<envVars, loginVars, games, inventory, _drops, channels,
                   watching_channel, _watching_restart, _drop_update,
                   objVars, runVars, watchVars, mntVars, claimVars>>

\* Twitch.state_change: change_state as a deferred call, for the callbacks
\* of the window
state_change(state) == change_state(state)

\* the states the window requests: a reload of the inventory, and a
\* clean-up of the channel list
UserStates == {"INVENTORY_FETCH", "CHANNELS_CLEANUP"}

\* the user asks for a reload or a clean-up, at any time
UserRequest ==
    /\ Yielded /\ Started
    /\ \E state \in UserStates : state_change(state)
    /\ UNCHANGED <<envVars, loginVars, games, inventory, _drops, channels,
                   watching_channel, _watching_restart, _drop_update,
                   objVars, runVars, watchVars, mntVars, claimVars>>

\* the user selects a channel of the list and asks to switch to it
UserSelect ==
    /\ Yielded /\ Started
    /\ \E c \in Range(channels) : selection' = Some(c)
    /\ state_change("CHANNEL_SWITCH")
    /\ UNCHANGED <<envVars, loginVars, games, inventory, _drops, channels,
                   watching_channel, _watching_restart, _drop_update, chan,
                   minutes, claim_state, topics, runVars, watchVars, mntVars,
                   claimVars>>

\* ------------------------------------------------------- _watch_loop()
\* what a watch cycle has done since its heartbeat: the drop-progress
\* message that resolved the rendezvous, how the wait ended, the answer of
\* the CurrentDrop poll, the number of local estimates applied, whether
\* restart_watching was called before the cycle went to sleep, and whether
\* the result the rendezvous holds is that of a message for an untracked drop
NoCycle == [heartbeat |-> FALSE, event |-> None, ended |-> "no",
            poll |-> None, bumps |-> 0, restart |-> FALSE,
            untracked |-> FALSE]

\* the watch loop is in a cycle and has not reached its sleep
InCycle == watchPc \in {"send", "rendezvous", "timed_out", "poll"}

\* Twitch.get_active_drop
get_active_drop(channel) ==
    IF DOMAIN games = {} THEN None
    ELSE
    LET watching == IF watching_channel # None THEN watching_channel ELSE channel
        game == IF watching # None THEN chan[watching[1]].game ELSE None
        earn == SelectSeq(inventory,
                    LAMBDA c : /\ camp[c].game \in DOMAIN games
                               /\ campaign_can_earn(c, watching)
                               /\ drop_can_earn(DropOf(c), watching))
        strict == SelectSeq(earn,
                    LAMBDA c : game # None /\ camp[c].game = game[1])
        drops == IF strict # <<>> THEN strict ELSE earn
        sorted == StableSort(drops,
                    [c \in CampaignIds |-> MaxMinutes - minutes[DropOf(c)]])
    IN  IF drops # <<>> THEN Some(DropOf(sorted[1])) ELSE None

\* TimedDrop.update_minutes
update_minutes(d, value) == [minutes EXCEPT ![d] = value]

\* TimedDrop.bump_minutes: one minute, the heartbeat interval
bump_minutes(d) == [minutes EXCEPT ![d] = minutes[d] + 1]

\* _watch_sleep, lines 392-394: the restart flag is cleared, then awaited
\* with a timeout
watch_sleep ==
    /\ _watching_restart' = FALSE
    /\ watchPc' = "sleep"

\* _watch_loop, lines 436-444: the local estimate, in a cycle that has
\* done `done` so far
use_active(channel, done) ==
    IF get_active_drop(channel) # None
    THEN /\ minutes' = bump_minutes(get_active_drop(channel)[1])
         /\ cycle' = [done EXCEPT !.bumps = done.bumps + 1]
    ELSE /\ cycle' = done
         /\ UNCHANGED minutes

\* lines 400-401: a channel is watched; the heartbeat is sent
WatchGet ==
    /\ Yielded /\ watchPc = "get"
    /\ watching_channel # None
    /\ w_channel' = watching_channel[1]
    /\ watchPc' = "send"
    /\ UNCHANGED <<envVars, loginVars, coreVars, objVars, runVars, mntVars,
                   claimVars, future, cycle>>

\* lines 401-411: send_watch returned; on success the rendezvous is opened
WatchSend ==
    /\ Yielded /\ watchPc = "send"
    /\ \E succeeded \in BOOLEAN :
        IF succeeded
        THEN /\ _drop_update' = Some("future")
             /\ future' = "pending"
             /\ watchPc' = "rendezvous"
             /\ cycle' = [NoCycle EXCEPT !.heartbeat = TRUE,
                                         !.restart = cycle.restart]
             /\ UNCHANGED _watching_restart
        ELSE /\ watch_sleep
             /\ UNCHANGED <<_drop_update, future, cycle>>
    /\ UNCHANGED <<envVars, loginVars, _state, _state_change, games,
                   inventory, _drops, channels, watching_channel, objVars,
                   runVars, mntVars, claimVars, w_channel>>

\* line 411: the 10 seconds are over; wait_for cancels the future and
\* waits for the cancellation before it raises TimeoutError
WatchTimeout ==
    /\ Yielded /\ watchPc = "rendezvous" /\ future = "pending"
    /\ future' = "cancelled"
    /\ watchPc' = "timed_out"
    /\ UNCHANGED <<envVars, loginVars, coreVars, objVars, runVars, mntVars,
                   claimVars, w_channel, cycle>>

WatchTimedOut_keeps_slot ==
    /\ Yielded /\ watchPc = "timed_out"
    /\ use_active(Some(w_channel), [cycle EXCEPT !.ended = "timeout"])
    /\ watch_sleep
    /\ UNCHANGED <<envVars, loginVars, _state, _state_change, games,
                   inventory, _drops, channels, watching_channel,
                   _drop_update, chan, claim_state, topics, selection,
                   runVars, mntVars, claimVars, w_channel, future>>

\* lines 412-445 after TimeoutError: handled = False, use_active = True, so
\* the poll is skipped and the local estimate is applied
WatchTimedOut ==
    /\ Yielded /\ watchPc = "timed_out"
    /\ _drop_update' = None
    /\ future' = "none"
    /\ use_active(Some(w_channel), [cycle EXCEPT !.ended = "timeout"])
    /\ watch_sleep
    /\ UNCHANGED <<envVars, loginVars, _state, _state_change, games,
                   inventory, _drops, channels, watching_channel, chan,
                   claim_state, topics, selection, runVars, mntVars,
                   claimVars, w_channel>>

\* lines 411-421: a handler resolved the rendezvous; when it was handled
\* the cycle sleeps, otherwise CurrentDrop is requested
WatchResolved ==
    /\ Yielded /\ watchPc = "rendezvous" /\ future \in {"true", "false"}
    /\ _drop_update' = None
    /\ future' = "none"
    /\ IF future = "true"
       THEN /\ watch_sleep
            /\ cycle' = [cycle EXCEPT !.ended = "handled"]
       ELSE /\ watchPc' = "poll"
            /\ cycle' = [cycle EXCEPT !.ended = "unhandled",
                                      !.untracked = FALSE]
            /\ UNCHANGED _watching_restart
    /\ UNCHANGED <<envVars, loginVars, _state, _state_change, games,
                   inventory, _drops, channels, watching_channel, objVars,
                   runVars, mntVars, claimVars, w_channel>>

\* what CurrentDrop may answer: no session, or a drop and its minutes
CurrentDropData ==
    {None} \cup {Some([dropID |-> d, currentMinutesWatched |-> m]) :
                    d \in KnownDrops \cup {UntrackedDrop}, m \in 0..MaxMinutes}

poll_result_estimate(drop_data, channel, done) == use_active(channel, done)

\* lines 422-444: what the loop does with the answer drop_data of
\* CurrentDrop, in a cycle that has done `done` so far
poll_result(drop_data, channel, done) ==
    IF drop_data = None
    THEN /\ cycle' = done
         /\ UNCHANGED minutes
    ELSE LET drop_id == drop_data[1].dropID
         IN  IF drop_id \notin _drops
             THEN use_active(channel, done)
             ELSE IF ~drop_can_earn(drop_id, channel)
             THEN use_active(channel, done)
             ELSE /\ minutes' = update_minutes(drop_id,
                                    drop_data[1].currentMinutesWatched)
                  /\ cycle' = done

\* lines 421-445: CurrentDrop answered
WatchPoll ==
    /\ Yielded /\ watchPc = "poll"
    /\ \E drop_data \in CurrentDropData :
        poll_result(drop_data, Some(w_channel),
                    [cycle EXCEPT !.poll = Some(drop_data)])
    /\ watch_sleep
    /\ UNCHANGED <<envVars, loginVars, _state, _state_change, games,
                   inventory, _drops, channels, watching_channel,
                   _drop_update, chan, claim_state, topics, selection,
                   runVars, mntVars, claimVars, w_channel, future>>

\* _watch_sleep, line 394: restart_watching() ended the wait
WatchRestarted ==
    /\ Yielded /\ watchPc = "sleep" /\ _watching_restart
    /\ watchPc' = "get"
    /\ cycle' = NoCycle
    /\ UNCHANGED <<envVars, loginVars, coreVars, objVars, runVars, mntVars,
                   claimVars, w_channel, future>>

\* _watch_sleep, line 394: the delay is over
WatchSlept ==
    /\ Yielded /\ watchPc = "sleep"
    /\ watchPc' = "get"
    /\ cycle' = NoCycle
    /\ UNCHANGED <<envVars, loginVars, coreVars, objVars, runVars, mntVars,
                   claimVars, w_channel, future>>

\* ------------------------------------------------------ process_drops()
set_result_unhandled(result) ==
    IF future = "pending"
    THEN /\ future' = "false"
         /\ _drop_update' = None
    ELSE UNCHANGED <<future, _drop_update>>

\* Future.set_result: a cancelled future raises InvalidStateError, which
\* ends the handler before line 613 clears the slot
set_result_keeps_slot(result) ==
    IF future = "pending"
    THEN /\ future' = result
         /\ UNCHANGED _drop_update
    ELSE UNCHANGED <<future, _drop_update>>

set_result(result) ==
    IF future = "pending"
    THEN /\ future' = result
         /\ _drop_update' = None
    ELSE UNCHANGED <<future, _drop_update>>

\* process_drops, lines 556-560 and 597-613: a drop-progress message
DropProgressMessage(drop_id, value) ==
    /\ Yielded /\ Started
    /\ IF _drop_update = None
       THEN UNCHANGED <<minutes, future, _drop_update, cycle>>
       ELSE IF drop_id \in _drops /\ drop_can_earn(drop_id, watching_channel)
       THEN /\ minutes' = update_minutes(drop_id, value)
            /\ set_result("true")
            /\ cycle' = [cycle EXCEPT !.event =
                           Some([drop_id |-> drop_id, value |-> value,
                                 pending |-> future = "pending"])]
       ELSE /\ set_result("false")
            /\ cycle' = [cycle EXCEPT !.untracked =
                           @ \/ (drop_id \notin _drops /\ future = "pending")]
            /\ UNCHANGED minutes
    /\ UNCHANGED <<envVars, loginVars, _state, _state_change, games,
                   inventory, _drops, channels, watching_channel,
                   _watching_restart, chan, claim_state, topics, selection,
                   runVars, mntVars, claimVars, watchPc, w_channel>>

DropProgress ==
    \E drop_id \in KnownDrops \cup {UntrackedDrop}, value \in 0..MaxMinutes :
        DropProgressMessage(drop_id, value)

restart_watching_unset == UNCHANGED _watching_restart

\* Twitch.restart_watching
restart_watching == _watching_restart' = TRUE

\* process_drops, lines 561-570: a drop-claim message; the claim id is
\* stored and the claim requested
DropClaimMessage(drop_id) ==
    /\ Yielded /\ Started /\ claimPc = "idle"
    /\ IF drop_id \notin _drops
       THEN UNCHANGED <<claim_state, claimPc, c_drop, c_mined>>
       ELSE /\ claim_state' = IF claim_state[drop_id] = "claimed" THEN claim_state
                              ELSE [claim_state EXCEPT ![drop_id] = "claimable"]
            /\ c_drop' = Some(drop_id)
            /\ UNCHANGED c_mined
            /\ claimPc' = "claim"
    /\ UNCHANGED <<envVars, loginVars, coreVars, chan, minutes, topics,
                   selection, runVars, watchVars, mntVars>>

DropClaim == \E drop_id \in claimable : DropClaimMessage(drop_id)

\* process_drops, lines 570-591: drop.claim() returned; the handler sleeps
\* and polls CurrentDrop until the session has left the drop
DropClaimed ==
    /\ Yielded /\ claimPc = "claim"
    /\ \E result \in BOOLEAN :
        /\ c_mined' = Some(result)
        /\ claim_state' = IF result /\ claim_state[c_drop[1]] = "claimable"
                          THEN [claim_state EXCEPT ![c_drop[1]] = "claimed"]
                          ELSE claim_state
    /\ claimPc' = "settle"
    /\ UNCHANGED <<envVars, loginVars, coreVars, chan, minutes, topics,
                   selection, runVars, watchVars, mntVars, c_drop>>

\* process_drops, lines 592-596: the watch loop is restarted when the
\* campaign has drops left, otherwise the inventory is fetched again
DropClaimSettled ==
    /\ Yielded /\ claimPc = "settle"
    /\ IF claim_state[c_drop[1]] # "claimed"
       THEN /\ restart_watching
            /\ cycle' = [cycle EXCEPT !.restart = @ \/ InCycle]
            /\ UNCHANGED <<_state, _state_change>>
       ELSE /\ change_state("INVENTORY_FETCH")
            /\ UNCHANGED <<_watching_restart, cycle>>
    /\ claimPc' = "idle"
    /\ c_drop' = None /\ c_mined' = None
    /\ UNCHANGED <<envVars, loginVars, games, inventory, _drops, channels,
                   watching_channel, _drop_update, objVars, runVars,
                   watchPc, w_channel, future, mntVars>>

\* ----------------------------------------------- process_stream_state()
on_online_outside_idle(channel) ==
    LET channel_order == _game_key(channel)
        watching_order == IF watching_channel # None
                          THEN _game_key(chan[watching_channel[1]]) ELSE 1
    IN  IF /\ \/ watching_channel = None
              \/ channel_order < watching_order
              \/ /\ channel_order = watching_order
                 /\ channel.priority
                 /\ ~chan[watching_channel[1]].priority
           /\ can_watch(channel)
        THEN watch(channel)
        ELSE UNCHANGED watching_channel

on_online_unchecked(channel) ==
    LET channel_order == _game_key(channel)
        watching_order == IF watching_channel # None
                          THEN _game_key(chan[watching_channel[1]]) ELSE 1
    IN  IF \/ _state = "IDLE"
           \/ watching_channel = None
           \/ channel_order < watching_order
           \/ /\ channel_order = watching_order
              /\ channel.priority
              /\ ~chan[watching_channel[1]].priority
        THEN watch(channel)
        ELSE UNCHANGED watching_channel

\* Twitch.on_online, for a channel that has just gone online
on_online(channel) ==
    LET channel_order == _game_key(channel)
        watching_order == IF watching_channel # None
                          THEN _game_key(chan[watching_channel[1]]) ELSE 1
    IN  IF /\ \/ _state = "IDLE"
              \/ watching_channel = None
              \/ channel_order < watching_order
              \/ /\ channel_order = watching_order
                 /\ channel.priority
                 /\ ~chan[watching_channel[1]].priority
           /\ can_watch(channel)
        THEN watch(channel)
        ELSE UNCHANGED watching_channel

\* Twitch.on_offline
on_offline(channel) ==
    IF watching_channel # None /\ watching_channel[1] = channel.id
    THEN change_state("CHANNEL_SWITCH")
    ELSE UNCHANGED <<_state, _state_change>>

\* Channel.set_online: an offline channel whose stream the platform
\* reports takes the stream's data and calls on_online
set_online(c) ==
    IF ~chan[c].online /\ platform[c].online
    THEN /\ chan' = [chan EXCEPT ![c] = NewChannel(c, chan[c].priority)]
         /\ on_online(NewChannel(c, chan[c].priority))
    ELSE UNCHANGED <<chan, watching_channel>>

\* Channel.set_offline: an online channel loses its stream and calls
\* on_offline
set_offline(c) ==
    IF chan[c].online
    THEN /\ chan' = [chan EXCEPT ![c].online = FALSE, ![c].viewers = None,
                                 ![c].game = None]
         /\ on_offline(chan[c])
    ELSE UNCHANGED <<chan, _state, _state_change>>

MessageTypes == {"viewcount", "stream-down", "stream-up", "commercial", "other"}

\* Twitch.process_stream_state: a message of a subscribed StreamState topic
StreamStateMessage(channel_id, msg_type, viewers) ==
    /\ Yielded /\ Started
    /\ IF ~Contains(channels, channel_id)
       THEN UNCHANGED <<chan, watching_channel, _state, _state_change>>
       ELSE CASE msg_type = "viewcount" ->
                   IF ~chan[channel_id].online
                   THEN /\ set_online(channel_id)
                        /\ UNCHANGED <<_state, _state_change>>
                   ELSE /\ chan' = [chan EXCEPT ![channel_id].viewers = Some(viewers)]
                        /\ UNCHANGED <<watching_channel, _state, _state_change>>
              [] msg_type = "stream-down" ->
                   /\ set_offline(channel_id)
                   /\ UNCHANGED watching_channel
              [] msg_type = "stream-up" ->
                   /\ set_online(channel_id)
                   /\ UNCHANGED <<_state, _state_change>>
              [] OTHER ->
                   UNCHANGED <<chan, watching_channel, _state, _state_change>>
    /\ UNCHANGED <<envVars, loginVars, games, inventory, _drops, channels,
                   _watching_restart, _drop_update, minutes, claim_state,
                   topics, selection, runVars, watchVars, mntVars,
                   claimVars>>

StreamState ==
    \E channel_id \in topics, msg_type \in MessageTypes, viewers \in audience :
        StreamStateMessage(channel_id, msg_type, viewers)

\* ------------------------------------------------- _maintenance_loop()
MaintenanceLoop_stops ==
    /\ Yielded /\ mntPc = "run"
    /\ IF mnt_i % InventoryPeriod = 0
       THEN change_state("INVENTORY_FETCH")
       ELSE UNCHANGED <<_state, _state_change>>
    /\ mnt_i' = (mnt_i + 1) % CounterWrap
    /\ watching_channel' = None
    /\ UNCHANGED <<envVars, loginVars, games, inventory, _drops, channels,
                   _watching_restart, _drop_update,
                   objVars, runVars, watchVars, claimVars, mntPc>>

\* one iteration, lines 451-460; claim_bonus touches no state of Twitch
MaintenanceLoop ==
    /\ Yielded /\ mntPc = "run"
    /\ IF mnt_i % InventoryPeriod = 0
       THEN change_state("INVENTORY_FETCH")
       ELSE UNCHANGED <<_state, _state_change>>
    /\ mnt_i' = (mnt_i + 1) % CounterWrap
    /\ UNCHANGED <<envVars, loginVars, games, inventory, _drops, channels,
                   watching_channel, _watching_restart, _drop_update,
                   objVars, runVars, watchVars, claimVars, mntPc>>

\* ------------------------------------------------------------ run(), start
\* run(), lines 173-198: logged in; the websocket and the two loops are
\* started and INVENTORY_FETCH is requested
RunStart ==
    /\ runPc = "start"
    /\ watchPc' = "get"
    /\ mntPc' = "run"
    /\ change_state("INVENTORY_FETCH")
    /\ runPc' = "loop"
    /\ UNCHANGED <<envVars, loginVars, games, inventory, _drops, channels,
                   watching_channel, _watching_restart, _drop_update,
                   objVars, claimVars, full_cleanup, campaigns, idx,
                   new_channels, acl_channels, no_acl, w_channel, future,
                   cycle, mnt_i>>

\* ---------------------------------------------------------------- _login()
\* what the user may type into the login form, and the tokens and answers
\* of the passport endpoint: an error code (2000 stands for the codes the
\* flow does not list), an access token, or neither
Passwords == {"p", "q"}
Codes == {"", "c"}
Tokens == {"A", "B"}
LoginResponses ==
    [kind : {"error"}, error_code : {1000, 3001, 3012, 3023, 3011, 3022, 2000}]
    \cup [kind : {"token"}, access_token : Tokens]
    \cup {[kind |-> "none"]}

\* LoginForm.clear(password=True), clear(token=True) and clear()
clear_password == [login_form EXCEPT !.password = ""]
clear_token == [login_form EXCEPT !.token = ""]
clear_form == [password |-> "", token |-> ""]

\* lines 685-691: the user submits the form; the payload takes the
\* password and loses the 2FA tokens
LoginAsk ==
    /\ loginPc = "ask"
    /\ \E password \in Passwords, token \in Codes :
        /\ login_form' = [password |-> password, token |-> token]
        /\ payload' = [password |-> password, authy_token |-> "",
                       twitchguard_code |-> ""]
    /\ attempt' = 0
    /\ loginPc' = "request"
    /\ UNCHANGED <<envVars, coreVars, objVars, runVars, watchVars, mntVars,
                   claimVars, login_response, _access_token, rejected,
                   checkVars, reqVars>>

\* lines 691 and 744: the next attempt of `for attempt in range(2)`, or,
\* with the attempts used up, the next round of `while True`
next_attempt ==
    IF attempt = 0
    THEN attempt' = 1 /\ loginPc' = "request"
    ELSE attempt' = 0 /\ loginPc' = "ask"

login_answer_clears_token(response) ==
    IF response.kind = "error"
    THEN /\ UNCHANGED _access_token
         /\ CASE response.error_code = 1000 ->
                    /\ loginPc' = "captcha"
                    /\ UNCHANGED <<login_form, payload, attempt, rejected>>
              [] response.error_code = 3001 ->
                    /\ login_form' = clear_token
                    /\ rejected' = TRUE
                    /\ loginPc' = "ask"
                    /\ UNCHANGED <<payload, attempt>>
              [] response.error_code \in {3012, 3023} ->
                    /\ login_form' = clear_token
                    /\ loginPc' = "ask"
                    /\ UNCHANGED <<payload, attempt, rejected>>
              [] response.error_code \in {3011, 3022} ->
                    IF login_form.token = ""
                    THEN /\ loginPc' = "ask"
                         /\ UNCHANGED <<login_form, payload, attempt, rejected>>
                    ELSE /\ payload' =
                                IF response.error_code = 3022
                                THEN [payload EXCEPT
                                        !.twitchguard_code = login_form.token]
                                ELSE [payload EXCEPT
                                        !.authy_token = login_form.token]
                         /\ next_attempt
                         /\ UNCHANGED <<login_form, rejected>>
              [] OTHER ->
                    /\ loginPc' = "failed"
                    /\ UNCHANGED <<login_form, payload, attempt, rejected>>
    ELSE IF response.kind = "token"
    THEN /\ _access_token' = Some(response.access_token)
         /\ login_form' = clear_form
         /\ loginPc' = "returned"
         /\ UNCHANGED <<payload, attempt, rejected>>
    ELSE /\ next_attempt
         /\ UNCHANGED <<login_form, payload, _access_token, rejected>>

\* lines 697-753: what the flow does with the answer to a submission
login_answer(response) ==
    IF response.kind = "error"
    THEN /\ UNCHANGED _access_token
         /\ CASE response.error_code = 1000 ->
                    /\ loginPc' = "captcha"
                    /\ UNCHANGED <<login_form, payload, attempt, rejected>>
              [] response.error_code = 3001 ->
                    /\ login_form' = clear_password
                    /\ rejected' = TRUE
                    /\ loginPc' = "ask"
                    /\ UNCHANGED <<payload, attempt>>
              [] response.error_code \in {3012, 3023} ->
                    /\ login_form' = clear_token
                    /\ loginPc' = "ask"
                    /\ UNCHANGED <<payload, attempt, rejected>>
              [] response.error_code \in {3011, 3022} ->
                    IF login_form.token = ""
                    THEN /\ loginPc' = "ask"
                         /\ UNCHANGED <<login_form, payload, attempt, rejected>>
                    ELSE /\ payload' =
                                IF response.error_code = 3022
                                THEN [payload EXCEPT
                                        !.twitchguard_code = login_form.token]
                                ELSE [payload EXCEPT
                                        !.authy_token = login_form.token]
                         /\ next_attempt
                         /\ UNCHANGED <<login_form, rejected>>
              [] OTHER ->
                    /\ loginPc' = "failed"
                    /\ UNCHANGED <<login_form, payload, attempt, rejected>>
    ELSE IF response.kind = "token"
    THEN /\ _access_token' = Some(response.access_token)
         /\ login_form' = clear_form
         /\ loginPc' = "returned"
         /\ UNCHANGED <<payload, attempt, rejected>>
    ELSE /\ next_attempt
         /\ UNCHANGED <<login_form, payload, _access_token, rejected>>

\* lines 692-753: the passport endpoint answered a submission.  CAPTCHA
\* and an unlisted code raise out of the flow ("captcha", "failed"); an
\* access token is stored and returned ("returned")
LoginResponse ==
    /\ loginPc = "request"
    /\ \E response \in LoginResponses :
        /\ login_response' = Some(response)
        /\ login_answer(response)
    /\ UNCHANGED <<envVars, coreVars, objVars, runVars, watchVars, mntVars,
                   claimVars, checkVars, reqVars>>

\* ----------------------------------------------------------- check_login()
\* the statuses of the validation endpoint (500 stands for every status
\* that is neither 200 nor 401), and the user ids it reports
ValidateStatuses == {200, 401, 500}
UserIds == {1}
StoredTokens == Tokens \cup {"stale"}

\* lines 756-770: nothing to do with a token and a user id; otherwise the
\* attempts start
CheckLogin ==
    /\ checkPc = "start"
    /\ IF _access_token # None /\ _user_id # None
       THEN checkPc' = "returned"
       ELSE checkPc' = "attempt"
    /\ check_attempt' = 0 /\ validations' = 0
    /\ UNCHANGED <<envVars, coreVars, objVars, runVars, watchVars, mntVars,
                   claimVars, reqVars, loginPc, login_form, payload, attempt,
                   login_response, _access_token, rejected, jar, cookie,
                   status, _user_id, _is_logged_in>>

\* lines 771-780: the cookie of the jar; without one the login flow is
\* entered, with one and no token the token is taken from it
CheckCookie ==
    /\ checkPc = "attempt"
    /\ cookie' = jar
    /\ IF jar = None
       THEN /\ loginPc' = "ask" /\ checkPc' = "login"
            /\ UNCHANGED _access_token
       ELSE /\ _access_token' = IF _access_token = None THEN jar
                                ELSE _access_token
            /\ checkPc' = "validate"
            /\ UNCHANGED loginPc
    /\ UNCHANGED <<envVars, coreVars, objVars, runVars, watchVars, mntVars,
                   claimVars, reqVars, login_form, payload, attempt, login_response,
                   rejected, check_attempt, jar, status, _user_id,
                   _is_logged_in, validations>>

\* lines 774-776: _login() returned; the token goes into the cookie, which
\* is a copy and not the jar.  A LoginException leaves check_login
CheckLoggedIn ==
    /\ checkPc = "login" /\ loginPc \in {"returned", "captcha", "failed"}
    /\ IF loginPc = "returned"
       THEN /\ cookie' = _access_token
            /\ checkPc' = "validate"
       ELSE /\ checkPc' = "raised"
            /\ UNCHANGED cookie
    /\ loginPc' = "off"
    /\ UNCHANGED <<envVars, coreVars, objVars, runVars, watchVars, mntVars,
                   claimVars, reqVars, login_form, payload, attempt, login_response,
                   _access_token, rejected, check_attempt, jar, status,
                   _user_id, _is_logged_in, validations>>

\* `for attempt in range(2)`: the next iteration, or the `else` of the
\* loop, which raises "Login verification failure"
check_next ==
    IF check_attempt = 0
    THEN check_attempt' = 1 /\ checkPc' = "attempt"
    ELSE check_attempt' = check_attempt /\ checkPc' = "verification_failure"

\* lines 782-805: the validation endpoint answered
check_answer(answer) ==
    IF answer = 401
    THEN /\ jar' = None
         /\ check_next
         /\ UNCHANGED <<_user_id, _is_logged_in>>
    ELSE IF answer = 200
    THEN /\ \E user_id \in UserIds : _user_id' = Some(user_id)
         /\ _is_logged_in' = TRUE
         /\ jar' = cookie
         /\ checkPc' = "returned"
         /\ UNCHANGED check_attempt
    ELSE /\ check_next
         /\ UNCHANGED <<jar, _user_id, _is_logged_in>>

CheckValidate ==
    /\ checkPc = "validate"
    /\ validations' = validations + 1
    /\ \E answer \in ValidateStatuses :
        /\ status' = Some(answer)
        /\ check_answer(answer)
    /\ UNCHANGED <<envVars, coreVars, objVars, runVars, watchVars, mntVars,
                   claimVars, reqVars, loginPc, login_form, payload, attempt,
                   login_response, _access_token, rejected, cookie>>

\* --------------------------------------------------------------- request()
\* what session.request does on one attempt, and what the caller's
\* `async with` block does with the response it was handed
RequestOutcomes == {"response", "connection", "other"}
BlockOutcomes == {"block_done", "block_connection", "block_other"}

\* lines 811-816: the call, before the first attempt
RequestCall ==
    /\ reqPc = "start"
    /\ reqPc' = "request"
    /\ req_attempt' = 0 /\ cause' = None
    /\ UNCHANGED <<envVars, coreVars, objVars, runVars, watchVars, mntVars,
                   claimVars, loginPc, login_form, payload, attempt,
                   login_response, _access_token, rejected, checkVars,
                   attempts, log>>

\* lines 824-831: a ClientConnectionError is caught, whether session.request
\* raised it or the caller's block raised it at the `yield`, which lies
\* inside the `try`; the failure that was just logged becomes the cause,
\* and the loop goes on or runs out
request_failed ==
    /\ cause' = Some(Len(log'))
    /\ IF req_attempt < attempts - 1
       THEN req_attempt' = req_attempt + 1 /\ reqPc' = "request"
       ELSE req_attempt' = req_attempt /\ reqPc' = "request_exception"

\* the caller's block has raised into the generator
thrown == \E i \in DOMAIN log : log[i] = "block_connection"

\* lines 817-823: one attempt.  A response is yielded to the caller; a
\* generator that yields again after the caller's exception was thrown
\* into it makes the context manager raise RuntimeError
RequestAnswer ==
    /\ reqPc = "request"
    /\ \E outcome \in RequestOutcomes :
        /\ log' = Append(log, outcome)
        /\ IF outcome = "connection" THEN request_failed
           ELSE /\ reqPc' = IF outcome = "other" THEN "raised"
                            ELSE IF thrown THEN "runtime_error"
                            ELSE "yielded"
                /\ UNCHANGED <<req_attempt, cause>>
    /\ UNCHANGED <<envVars, coreVars, objVars, runVars, watchVars, mntVars,
                   claimVars, loginPc, login_form, payload, attempt,
                   login_response, _access_token, rejected, checkVars,
                   attempts>>

\* lines 822-823: the caller's block ends, and the generator returns, or
\* raises, and the exception is thrown into the generator at the `yield`
RequestBlock ==
    /\ reqPc = "yielded"
    /\ \E outcome \in BlockOutcomes :
        /\ log' = Append(log, outcome)
        /\ IF outcome = "block_connection" THEN request_failed
           ELSE /\ reqPc' = IF outcome = "block_other" THEN "raised"
                            ELSE "returned"
                /\ UNCHANGED <<req_attempt, cause>>
    /\ UNCHANGED <<envVars, coreVars, objVars, runVars, watchVars, mntVars,
                   claimVars, loginPc, login_form, payload, attempt,
                   login_response, _access_token, rejected, checkVars,
                   attempts>>

\* --------------------------------------------------------- specifications
\* Twitch.__init__ (lines 49-73) and the locals of the tasks not yet run
InitTwitch ==
    /\ _state = "IDLE" /\ _state_change = FALSE
    /\ games = NoGames /\ inventory = <<>> /\ _drops = {}
    /\ channels = <<>> /\ watching_channel = None
    /\ _watching_restart = FALSE /\ _drop_update = None
    /\ chan = [c \in ChannelIds |->
                [id |-> c, online |-> FALSE, viewers |-> None, game |-> None,
                 drops_enabled |-> FALSE, priority |-> FALSE]]
    /\ minutes = [d \in DropIds |-> 0]
    /\ claim_state = [d \in DropIds |-> "none"]
    /\ topics = {} /\ selection = None
    /\ runPc = "start" /\ full_cleanup = FALSE /\ campaigns = <<>> /\ idx = 0
    /\ new_channels = <<>> /\ acl_channels = <<>> /\ no_acl = {}
    /\ watchPc = "off" /\ w_channel = 1 /\ future = "none" /\ cycle = NoCycle
    /\ mntPc = "off" /\ mnt_i = 1
    /\ claimPc = "idle" /\ c_drop = None /\ c_mined = None
    /\ attempt = 0 /\ login_response = None /\ rejected = FALSE
    /\ login_form = [password |-> "", token |-> ""]
    /\ payload = [password |-> "", authy_token |-> "", twitchguard_code |-> ""]

\* no request is being made
RequestIdle ==
    /\ reqPc = "off" /\ attempts = 1 /\ req_attempt = 0
    /\ cause = None /\ log = <<>>

\* run() and its tasks are modelled from the point where check_login has
\* returned; the login flow is not running
LoggedIn ==
    /\ loginPc = "off"
    /\ checkPc = "returned" /\ check_attempt = 0 /\ validations = 1
    /\ status = Some(200)
    /\ _access_token = Some("A") /\ jar = Some("A") /\ cookie = Some("A")
    /\ _user_id = Some(1) /\ _is_logged_in = TRUE

InitProgram == InitTwitch /\ LoggedIn /\ RequestIdle

\* the reports of a drop not yet watched, and of a drop watched to its end
Unwatched == [minutes |-> 0, claim |-> "none"]
Finished == [minutes |-> MaxMinutes, claim |-> "claimable"]

\* one account: priority-only mode with game g1 ranked first.  Campaign X
\* of g1 is in progress and has no ACL; campaign Y of g1 is in the catalog
\* and is restricted to channel 2, which is offline; channel 1 streams g1
\* with drops enabled
InitEnv ==
    /\ settings = [priority_only |-> TRUE, exclude |-> {}, priority |-> {"g1"},
                   priorities |-> [g \in {"g1"} |-> 1]]
    /\ camp = [c \in CampaignIds |->
                [game |-> "g1", ends_at |-> 1, status |-> "ACTIVE",
                 linked |-> TRUE, time |-> "active",
                 allowed_channels |-> IF c = "Y" THEN {2} ELSE {}]]
    /\ ongoing = <<"X">>
    /\ available = <<"X", "Y">>
    /\ platform = [c \in ChannelIds |->
                    IF c # 1
                    THEN [online |-> FALSE, viewers |-> None, game |-> None,
                          drops_enabled |-> TRUE]
                    ELSE [online |-> TRUE, viewers |-> Some(0),
                          game |-> Some("g1"), drops_enabled |-> TRUE]]
    /\ reports = [d \in DropIds |->
                    IF d = "dX" THEN {Unwatched, Finished} ELSE {Unwatched}]
    /\ claimable = {"dX", UntrackedDrop}
    /\ audience = {0}

Init == InitEnv /\ InitProgram

\* the handlers of run(), one iteration after the other
HandlerNext ==
    \/ RunStart \/ Idle \/ InventoryFetch \/ FetchInventoryBuild
    \/ FetchInventoryAdd \/ GamesUpdate \/ GamesUpdateClaimed
    \/ ChannelsCleanup \/ ChannelsFetch \/ ChannelsFetchAcl
    \/ ChannelsFetchGame \/ ChannelsFetchLive \/ ChannelsFetchFinish
    \/ ChannelSwitch

WatchNext ==
    \/ WatchGet \/ WatchSend \/ WatchTimeout \/ WatchTimedOut
    \/ WatchResolved \/ WatchPoll \/ WatchRestarted \/ WatchSlept

\* every task of the event loop
Next ==
    \/ HandlerNext \/ Exit \/ RunWake \/ WatchNext
    \/ request_close \/ DropProgress \/ DropClaim \/ DropClaimed
    \/ DropClaimSettled \/ StreamState \/ MaintenanceLoop
    \/ UserRequest \/ UserSelect

Spec == Init /\ [][Next]_vars

\* the tasks that request a state: run(), the window's callbacks, the
\* stream-state and drop-claim handlers and the maintenance loop
LifecycleNext ==
    \/ HandlerNext \/ Exit \/ RunWake
    \/ request_close \/ DropClaim \/ DropClaimed \/ DropClaimSettled
    \/ StreamState \/ MaintenanceLoop \/ UserRequest \/ UserSelect

SpecLifecycle == Init /\ [][LifecycleNext]_vars

\* the tasks that read and write the inventory and the progress of the
\* drops: run(), the watch loop and the handlers of the drop messages
MiningNext ==
    \/ HandlerNext \/ RunWake
    \/ WatchNext \/ DropProgress
    \/ DropClaim \/ DropClaimed \/ DropClaimSettled

SpecMining == Init /\ [][MiningNext]_vars

\* C1: once the state is EXIT, every step of every task leaves it EXIT,
\* and the state-change flag, once set, stays set: a change_state call
\* made in EXIT only raises the signal
ExitIsSticky ==
    [][_state = "EXIT" =>
          /\ _state' = "EXIT"
          /\ _state_change => _state_change']_vars

\* GAMES_UPDATE was suspended in a claim when EXIT was requested; its
\* change_state(CHANNELS_CLEANUP) then left the state EXIT
ExitKeptAfterGamesUpdate ==
    /\ _state = "EXIT" /\ full_cleanup /\ runPc = "loop"

\* ------------------------------------------------------ the watch ladder
\* the drop-progress message that resolved the pending rendezvous of the
\* cycle, if one did
ResolvingEvent(c) == c.event # None /\ c.event[1].pending

\* the answer of the cycle's poll names a tracked drop that the watched
\* channel can earn
PollMatches(answer) ==
    /\ answer # None
    /\ answer[1].dropID \in _drops
    /\ drop_can_earn(answer[1].dropID, Some(w_channel))

\* C2: when a drop-progress message for a tracked drop that the watched
\* channel can earn resolves the pending rendezvous, the handler sets the
\* drop's progress to the message's value, and the cycle then performs
\* neither the CurrentDrop poll nor the local estimate
LadderEvent ==
    [][ResolvingEvent(cycle') =>
          /\ cycle'.poll = None /\ cycle'.bumps = 0
          /\ ~ResolvingEvent(cycle) =>
                minutes'[cycle'.event[1].drop_id] = cycle'.event[1].value]_vars

\* a cycle that a matching message resolved has ended: the drop has the
\* message's value, its minute, and the loop sleeps
LadderEventCycle ==
    /\ watchPc = "sleep" /\ cycle.ended = "handled"
    /\ ResolvingEvent(cycle)
    /\ cycle.event[1].value = 1
    /\ minutes[cycle.event[1].drop_id] = 1

\* C3, as amended: the CurrentDrop poll is issued exactly when a message
\* resolved the rendezvous negatively; a poll that returns a tracked drop
\* the watched channel can earn sets the drop's progress to its value and
\* no estimate is applied; a window that times out is followed by no poll
LadderPoll ==
    [][/\ (watchPc = "rendezvous" /\ watchPc' # "rendezvous")
            => (watchPc' = "poll" <=> future = "false")
       /\ (watchPc = "poll" /\ watchPc' # "poll" /\ PollMatches(cycle'.poll[1]))
            => /\ minutes' = [minutes EXCEPT ![cycle'.poll[1][1].dropID] =
                                cycle'.poll[1][1].currentMinutesWatched]
               /\ cycle'.bumps = 0
       /\ cycle'.ended = "timeout" => cycle'.poll = None]_vars

\* a cycle resolved negatively has polled a tracked, earnable drop and has
\* taken the poll's value without an estimate
LadderPollCycle ==
    /\ watchPc = "sleep" /\ cycle.ended = "unhandled"
    /\ cycle.poll # None /\ cycle.poll[1] # None
    /\ cycle.poll[1][1].dropID \in _drops
    /\ cycle.poll[1][1].currentMinutesWatched = 1
    /\ minutes[cycle.poll[1][1].dropID] = 1
    /\ cycle.bumps = 0

\* C3, as claimed: a cycle whose window timed out has issued the poll
LadderPollOnTimeout ==
    (watchPc = "sleep" /\ cycle.ended = "timeout") => cycle.poll # None

\* the best candidate of the watched channel, if there is one, gains one
\* minute, and no other drop changes
EstimatedOnce ==
    minutes' = IF get_active_drop(Some(w_channel)) = None THEN minutes
               ELSE [minutes EXCEPT ![get_active_drop(Some(w_channel))[1]] = @ + 1]

InventoryRefreshAtomic ==
    runPc = "inv_add" =>
        /\ inventory = campaigns
        /\ _drops = {DropOf(c) : c \in Range(campaigns)}

\* ---------------------------------------------------- the channel ranking
\* CHANNELS_FETCH over the streams the platform may report: games g1 and
\* g2 are wanted at ranks 1 and 2, campaign X of g1 has no ACL and campaign
\* Y of g2 lists none, one or two channels; every channel is offline or
\* streams g1 or g2; either campaign may be over, which drops its game
RankStreams ==
    {d \in StreamData : d.drops_enabled /\ (d.online => d.game # None)}
InitRank ==
    /\ settings = [priority_only |-> TRUE, exclude |-> {},
                   priority |-> {"g1", "g2"},
                   priorities |-> [g \in {"g1", "g2"} |-> IF g = "g1" THEN 1 ELSE 2]]
    /\ \E acl \in {{}, {2}, {2, 3}} :
        camp = [c \in CampaignIds |->
                 [game |-> IF c = "Y" THEN "g2" ELSE "g1", ends_at |-> 1,
                  status |-> "ACTIVE", linked |-> TRUE, time |-> "active",
                  allowed_channels |-> IF c = "Y" THEN acl ELSE {}]]
    /\ ongoing = <<"X">>
    /\ available = <<"Y">>
    /\ platform \in [ChannelIds -> RankStreams]
    /\ reports = [d \in DropIds |-> {Unwatched, Finished}]
    /\ claimable = {}
    /\ audience = {}
    /\ InitProgram

\* run() alone: no message arrives and no other task requests a state
SpecRank == InitRank /\ [][HandlerNext]_vars

\* CHANNELS_FETCH is about to sort the candidates it has gathered
Sorting == runPc = "cf_games" /\ no_acl = {}
SameRank(a, b) == _game_key(chan[a]) = _game_key(chan[b])
SameFlag(a, b) == chan[a].priority = chan[b].priority

\* C5: the order of CHANNELS_FETCH holds every candidate once; game rank
\* ascends along it; among channels of one game rank the priority-flagged
\* come first; among channels of one game rank and one priority flag the
\* higher viewer count comes first
RankingOrder ==
    runPc = "cf_games" =>
        LET o == ordered_channels(new_channels)
        IN  /\ Len(o) = Len(new_channels)
            /\ Range(o) = Range(new_channels)
            /\ \A i, j \in DOMAIN o : i < j =>
                  /\ o[i] # o[j]
                  /\ _game_key(chan[o[i]]) <= _game_key(chan[o[j]])
                  /\ SameRank(o[i], o[j]) =>
                        (chan[o[j]].priority => chan[o[i]].priority)
                  /\ (/\ SameRank(o[i], o[j]) /\ SameFlag(o[i], o[j])
                      /\ chan[o[i]].viewers # None /\ chan[o[j]].viewers # None)
                        => chan[o[i]].viewers[1] >= chan[o[j]].viewers[1]

\* three candidates of one game rank: the sort moves the priority channel
\* with more viewers before the one with fewer, and both stay before the
\* channel without the flag
RankingSorts ==
    /\ Sorting /\ Len(new_channels) = 3
    /\ ordered_channels(new_channels) # new_channels
    /\ \A a, b \in Range(new_channels) : SameRank(a, b)
    /\ \E a, b, c \in Range(new_channels) :
        /\ chan[a].priority /\ chan[b].priority /\ ~chan[c].priority
        /\ chan[a].viewers = Some(1) /\ chan[b].viewers = Some(0)

\* C6, as amended: among channels of one game rank and one priority flag,
\* a channel whose viewer count is unknown never comes before a channel
\* whose viewer count is 0
UnknownViewersLast ==
    runPc = "cf_games" =>
        LET o == ordered_channels(new_channels)
        IN  \A i, j \in DOMAIN o :
                (/\ i < j /\ SameRank(o[i], o[j]) /\ SameFlag(o[i], o[j])
                 /\ chan[o[i]].viewers = None)
                    => chan[o[j]].viewers # Some(0)

\* an offline channel was gathered before a channel of its game rank and
\* priority flag that has 0 viewers, and the sort puts it behind
UnknownViewersSorted ==
    /\ Sorting
    /\ \E i, j \in DOMAIN new_channels :
        /\ i < j
        /\ SameRank(new_channels[i], new_channels[j])
        /\ SameFlag(new_channels[i], new_channels[j])
        /\ chan[new_channels[i]].viewers = None
        /\ chan[new_channels[j]].viewers = Some(0)

\* C6, as claimed: no channel whose viewer count is unknown comes before a
\* channel whose viewer count is 0
UnknownViewersNeverAbove ==
    runPc = "cf_games" =>
        LET o == ordered_channels(new_channels)
        IN  \A i, j \in DOMAIN o :
                (i < j /\ chan[o[i]].viewers = None)
                    => chan[o[j]].viewers # Some(0)

\* the budget of channels: the topics of all websockets but the two
\* topics of the account
Budget == MAX_WEBSOCKETS * WS_TOPICS_LIMIT - 2

\* C7: CHANNELS_FETCH leaves the first min(N, B) channels of the ranking
\* of its N candidates as the active set, in ranking order and subscribed,
\* and no overflow channel subscribed; the active set never exceeds B
CapacityBound ==
    [][/\ Len(channels') <= Budget
       /\ Sorting =>
            LET ranking == ordered_channels(new_channels)
                n == Min(Len(new_channels), Budget)
            IN  /\ Len(channels') = n
                /\ channels' = SubSeq(ranking, 1, n)
                /\ Range(channels') \subseteq topics'
                /\ \A i \in (n + 1)..Len(ranking) : ranking[i] \notin topics']_vars

\* CHANNELS_FETCH has gathered more channels than the budget: the active
\* set is full, and a channel it built is neither active nor subscribed
CapacityOverflow ==
    /\ runPc = "loop" /\ _state = "CHANNEL_SWITCH"
    /\ Len(channels) = Budget
    /\ \E c \in ChannelIds :
        /\ chan[c].drops_enabled
        /\ ~Contains(channels, c) /\ c \notin topics

\* ------------------------------------------------- the inventory refresh
\* fetch_inventory over the campaigns the backend may list: X is in
\* progress or not, Z is in progress or in the catalog, Y is in the catalog
\* with any status, linked or not; the catalog may repeat an id
QuietPlatform ==
    [c \in ChannelIds |->
        IF c = 1
        THEN [online |-> TRUE, viewers |-> Some(0), game |-> Some("g1"),
              drops_enabled |-> TRUE]
        ELSE [online |-> FALSE, viewers |-> None, game |-> None,
              drops_enabled |-> TRUE]]
CatalogStates ==
    {<<"ACTIVE", "active">>, <<"UPCOMING", "upcoming">>,
     <<"EXPIRED", "expired">>, <<"UPCOMING", "active">>}
InitInventory ==
    /\ settings = [priority_only |-> TRUE, exclude |-> {},
                   priority |-> {"g1", "g2"},
                   priorities |-> [g \in {"g1", "g2"} |-> IF g = "g1" THEN 1 ELSE 2]]
    /\ \E ends \in [CampaignIds -> 1..MaxEndsAt], st \in CatalogStates,
          link \in BOOLEAN, xtime \in {"active", "expired"} :
        camp = [c \in CampaignIds |->
                 [game |-> IF c = "Y" THEN "g2" ELSE "g1",
                  ends_at |-> ends[c],
                  status |-> IF c = "Y" THEN st[1] ELSE "ACTIVE",
                  linked |-> IF c = "Y" THEN link ELSE TRUE,
                  time |-> CASE c = "Y" -> st[2] [] c = "X" -> xtime
                             [] OTHER -> "active",
                  allowed_channels |-> IF c = "Z" THEN {2} ELSE {}]]
    /\ ongoing \in {<<>>, <<"X">>, <<"Z", "X">>}
    /\ available \in {<<>>, <<"Y">>, <<"Z", "Y">>, <<"Y", "X", "Y">>}
    /\ platform = QuietPlatform
    /\ reports = [d \in DropIds |-> {Unwatched, Finished}]
    /\ claimable = {}
    /\ audience = {}
    /\ InitProgram

SpecInventory == InitInventory /\ [][HandlerNext]_vars

\* fetch_inventory has returned and GAMES_UPDATE is requested
Fetched == runPc = "loop" /\ _state = "GAMES_UPDATE"

\* C9: after fetch_inventory the inventory holds the campaigns in
\* progress and the campaigns of the catalog that are ACTIVE or UPCOMING,
\* linked, not in progress and earnable, each once, by ascending end time
InventoryContents ==
    Fetched =>
        /\ Range(inventory) =
              Range(ongoing) \cup
              {c \in Range(available) :
                  /\ camp[c].status \in {"ACTIVE", "UPCOMING"}
                  /\ camp[c].linked
                  /\ c \notin Range(ongoing)
                  /\ campaign_can_earn(c, None)}
        /\ \A i, j \in DOMAIN inventory :
              /\ i # j => inventory[i] # inventory[j]
              /\ i < j => camp[inventory[i]].ends_at <= camp[inventory[j]].ends_at

\* campaign X is in progress and listed in the catalog as well; Y comes
\* from the catalog and ends first: the inventory is Y, then X once
InventoryMerged ==
    /\ Fetched
    /\ Contains(ongoing, "X") /\ Contains(available, "X")
    /\ inventory = <<"Y", "X">>
    /\ camp["Y"].ends_at < camp["X"].ends_at

\* ------------------------------------------------------ the games to mine
\* GAMES_UPDATE over the settings: priority-only mode on or off, a game
\* excluded or not, none, one or both games in the priority list
InitGames ==
    /\ \E only \in BOOLEAN, excl \in {{}, {"g2"}},
          prio \in {{}, {"g1"}, {"g1", "g2"}} :
        settings = [priority_only |-> only, exclude |-> excl, priority |-> prio,
                    priorities |-> [g \in prio |-> IF g = "g1" THEN 1 ELSE 2]]
    /\ \E ytime \in {"active", "expired"} :
        camp = [c \in CampaignIds |->
                 [game |-> IF c = "X" THEN "g1" ELSE "g2",
                  ends_at |-> 1, status |-> "ACTIVE", linked |-> TRUE,
                  time |-> IF c = "Y" THEN ytime ELSE "active",
                  allowed_channels |-> IF c = "Z" THEN {2} ELSE {}]]
    /\ ongoing = <<"X", "Y">>
    /\ available = <<"Z">>
    /\ platform = QuietPlatform
    /\ reports = [d \in DropIds |-> {Unwatched, Finished}]
    /\ claimable = {}
    /\ audience = {}
    /\ InitProgram

SpecGames == InitGames /\ [][HandlerNext]_vars

\* C10, as claimed: after GAMES_UPDATE the games are those of the
\* campaigns of the inventory that can be earned, are not excluded and,
\* in priority-only mode, are in the priority list; each has its
\* configured rank, or 0
GamesMap ==
    (runPc = "loop" /\ _state = "CHANNELS_CLEANUP") =>
        LET G == {camp[c].game : c \in
                    {x \in Range(inventory) :
                        /\ campaign_can_earn(x, None)
                        /\ camp[x].game \notin settings.exclude
                        /\ settings.priority_only =>
                              camp[x].game \in settings.priority}}
        IN  games = [g \in G |-> IF g \in DOMAIN settings.priorities
                                 THEN settings.priorities[g] ELSE 0]

\* ------------------------------------------------------ the eligibility
\* the channel object the platform's stream data gives for channel id c
Streamed(c) == NewChannel(c, FALSE)

\* the conditions of eligibility but the last: games are wanted, the
\* channel is online with drops enabled and streams a wanted game
StreamsWanted(c) ==
    /\ DOMAIN games # {}
    /\ Streamed(c).online
    /\ Streamed(c).drops_enabled
    /\ Streamed(c).game # None
    /\ Streamed(c).game[1] \in DOMAIN games

\* a campaign of the inventory can be progressed on channel c: it is
\* linked and active, c is on its ACL if it has one, and its drop is
\* neither claimed nor watched to the end
Progressable(c) ==
    \E x \in Range(inventory) :
        /\ camp[x].linked /\ camp[x].time = "active"
        /\ camp[x].allowed_channels # {} => c \in camp[x].allowed_channels
        /\ claim_state[DropOf(x)] # "claimed"
        /\ minutes[DropOf(x)] < MaxMinutes

\* C11: can_watch(channel) is true exactly when the eligible games are
\* not empty, the channel is online, drops are enabled for it, its game
\* is an eligible game, and a campaign of the inventory can be progressed
\* by the channel; in every other case it is false
CanWatchExactly ==
    \A c \in ChannelIds :
        can_watch(Streamed(c)) <=> (StreamsWanted(c) /\ Progressable(c))

\* CHANNEL_SWITCH has committed a channel that can be watched, while
\* another channel streams a wanted game with drops enabled and cannot
\* be watched, for want of a campaign it can progress
CanWatchDecides ==
    /\ runPc = "wait" /\ _state = "CHANNEL_SWITCH"
    /\ watching_channel # None
    /\ can_watch(Streamed(watching_channel[1]))
    /\ \E c \in ChannelIds :
        StreamsWanted(c) /\ ~Progressable(c) /\ ~can_watch(Streamed(c))

\* ---------------------------------------------------- the channel switch
\* run(), the stream-state handler and the user.  Games g1 and g2 are
\* wanted at ranks 1 and 2; campaign X of g1 has no ACL, campaign Y of g2
\* has none or lists channel 3; every channel is offline or streams g1 or
\* g2 with drops enabled; X may be over
SwitchStreams ==
    {d \in StreamData : /\ d.drops_enabled
                        /\ d.online => (d.game # None /\ d.viewers = Some(0))}
InitSwitch ==
    /\ settings = [priority_only |-> TRUE, exclude |-> {},
                   priority |-> {"g1", "g2"},
                   priorities |-> [g \in {"g1", "g2"} |-> IF g = "g1" THEN 1 ELSE 2]]
    /\ \E acl \in {{}, {3}} :
        camp = [c \in CampaignIds |->
                 [game |-> IF c = "Y" THEN "g2" ELSE "g1", ends_at |-> 1,
                  status |-> "ACTIVE", linked |-> TRUE, time |-> "active",
                  allowed_channels |-> IF c = "Y" THEN acl ELSE {}]]
    /\ ongoing = <<"X">>
    /\ available = <<"Y">>
    /\ platform \in [ChannelIds -> SwitchStreams]
    /\ reports = [d \in DropIds |->
                    IF d = "dX" THEN {Unwatched, Finished} ELSE {Unwatched}]
    /\ claimable = {}
    /\ audience = {0}
    /\ InitProgram

SwitchNext ==
    \/ HandlerNext \/ RunWake \/ StreamState \/ UserRequest \/ UserSelect

SpecSwitch == InitSwitch /\ [][SwitchNext]_vars

\* run() is about to handle CHANNEL_SWITCH
Switching == runPc = "loop" /\ _state = "CHANNEL_SWITCH"
Watchable(c) == can_watch(chan[c])
Position(c) == CHOOSE i \in DOMAIN channels : channels[i] = c

\* c is the first channel of the active set that can be watched, in the
\* order of game rank, channels of one rank in their order in the set
FirstByRank(c) ==
    /\ Contains(channels, c) /\ Watchable(c)
    /\ \A d \in Range(channels) \ {c} :
        Watchable(d) =>
            \/ _game_key(chan[c]) < _game_key(chan[d])
            \/ /\ _game_key(chan[c]) = _game_key(chan[d])
               /\ Position(c) < Position(d)

\* c is the first candidate that can be watched: the selected channel,
\* then the watched one, then the active set by game rank
FirstCandidate(c) ==
    IF selection # None /\ Watchable(selection[1]) THEN c = selection[1]
    ELSE IF watching_channel # None /\ Watchable(watching_channel[1])
    THEN c = watching_channel[1]
    ELSE FirstByRank(c)

\* C12: CHANNEL_SWITCH consumes the selection and commits the first
\* candidate that can be watched (the selected channel, then the watched
\* channel, then the active set by game rank, ties in their prior order);
\* when no candidate can be watched it commits nothing and requests IDLE
SwitchOrder ==
    [][Switching =>
        /\ selection' = None
        /\ IF \E c \in ChannelIds : FirstCandidate(c)
           THEN /\ \E c \in ChannelIds :
                    FirstCandidate(c) /\ watching_channel' = Some(c)
                /\ _state' = "CHANNEL_SWITCH"
           ELSE /\ watching_channel' = watching_channel
                /\ _state' = "IDLE"]_vars

\* CHANNEL_SWITCH has consumed a selection and committed a channel that
\* is not the best of the active set by game rank
SwitchKeepsSelected ==
    /\ runPc = "wait" /\ _state = "CHANNEL_SWITCH" /\ ~_state_change
    /\ selection = None /\ watching_channel # None
    /\ Watchable(watching_channel[1])
    /\ \E d \in Range(channels) :
        /\ Watchable(d)
        /\ _game_key(chan[d]) < _game_key(chan[watching_channel[1]])

\* ---------------------------------------------------------- the clean-up
\* run() is about to handle CHANNELS_CLEANUP
Cleaning == runPc = "loop" /\ _state = "CHANNELS_CLEANUP"

\* a channel a partial clean-up may remove
Stale(c) ==
    /\ ~chan[c].priority
    /\ \/ ~chan[c].online
       \/ chan[c].game = None
       \/ chan[c].game[1] \notin DOMAIN games

\* C13: the CHANNELS_CLEANUP that follows GAMES_UPDATE (the full one)
\* removes every channel; a partial one removes a channel only if it is
\* not priority-flagged and is offline or has no eligible game; the
\* removed channels leave the active set, whose other channels keep their
\* order, and lose their stream-state topics; the next state is IDLE when
\* no game is eligible and CHANNELS_FETCH otherwise
CleanupRemoves ==
    [][Cleaning =>
        LET removed == Range(channels) \ Range(channels')
        IN  /\ full_cleanup => channels' = <<>>
            /\ ~full_cleanup => \A c \in removed : Stale(c)
            /\ channels' = SelectSeq(channels, LAMBDA c : c \notin removed)
            /\ topics' = topics \ removed
            /\ _state' = IF DOMAIN games = {} THEN "IDLE" ELSE "CHANNELS_FETCH"]_vars

\* a partial clean-up has kept a channel, and a channel of the list that
\* went offline afterwards is out of the set and has no topic
CleanupKeepsSome ==
    /\ runPc = "loop" /\ _state = "CHANNELS_FETCH"
    /\ channels # <<>>
    /\ \E c \in ChannelIds \ Range(channels) :
        /\ chan[c].drops_enabled /\ ~chan[c].online /\ ~chan[c].priority
        /\ c \notin topics

\* -------------------------------------------------------- the rendezvous
\* the future of the slot has an outcome: a handler's result or the
\* cancellation of the timeout
Resolved == future \in {"true", "false", "cancelled"}

\* a rendezvous is put in the slot only by the watch loop when a
\* heartbeat has succeeded; it gets its outcome once, from a handler or
\* from the timeout, while it is pending, and keeps it until the watch
\* loop takes it
RendezvousStep ==
    /\ (_drop_update = None /\ _drop_update' # None) =>
            /\ watchPc = "send" /\ watchPc' = "rendezvous"
            /\ cycle'.heartbeat
            /\ future = "none" /\ future' = "pending"
    /\ Resolved => future' \in {future, "none"}
    /\ (Resolved' /\ future' # future) => future = "pending"
    /\ (future = "pending" /\ future' \in {"true", "false"}) =>
            watchPc' = "rendezvous" /\ _drop_update' = None
    /\ (future = "pending" /\ future' = "cancelled") => watchPc' = "timed_out"

\* C14: the slot holds a rendezvous only while the watch loop waits on it
\* (so at most one is pending, and the slot is empty when the next
\* heartbeat is sent); it is created only by the watch loop right after a
\* successful heartbeat and is resolved exactly once, by one handler or
\* by the timeout, never by both
RendezvousOnce ==
    /\ [](watchPc \notin {"rendezvous", "timed_out"} =>
            _drop_update = None /\ future = "none")
    /\ [][RendezvousStep]_vars

\* a drop-progress handler ran between the timeout of a rendezvous and
\* the watch loop taking it: it resolved nothing, the cycle ended as a
\* timeout and the slot is empty
RendezvousTimedOutFirst ==
    /\ watchPc = "sleep" /\ cycle.ended = "timeout"
    /\ cycle.event # None /\ ~cycle.event[1].pending
    /\ _drop_update = None /\ future = "none"

\* ---------------------------------------------------------- the claims
\* the claiming pass of GAMES_UPDATE is suspended in drop.claim() of d
PassClaims(d) == runPc = "claim" /\ DropOf(inventory[idx]) = d

\* the handler of a drop-claim message is suspended in drop.claim() of d
HandlerClaims(d) == claimPc = "claim" /\ c_drop = Some(d)

\* C15, as claimed: at most one claim request is ever issued for a drop,
\* however the claiming pass and the drop-claim handlers interleave; so
\* the pass and a handler never both have a request out for a drop that
\* no answer has marked claimed
ClaimedOnce ==
    \A d \in DropIds :
        ~(PassClaims(d) /\ HandlerClaims(d) /\ claim_state[d] = "claimable")

\* -------------------------------------------------------- the login flow
\* check_login has entered _login, with no access token or with the one
\* of a cookie that the validation has just refused (lines 770-792)
InitLogin ==
    /\ InitEnv /\ InitTwitch
    /\ loginPc = "ask"
    /\ _access_token \in {None, Some("stale")}
    /\ checkPc = "login" /\ jar = None /\ cookie = None
    /\ status = (IF _access_token = None THEN None ELSE Some(401))
    /\ check_attempt = (IF _access_token = None THEN 0 ELSE 1)
    /\ validations = check_attempt
    /\ _user_id = None /\ _is_logged_in = FALSE
    /\ RequestIdle

LoginNext == LoginAsk \/ LoginResponse

SpecLogin == InitLogin /\ [][LoginNext]_vars

\* the flow has ended: with a token, or with a fatal error
LoginOver == loginPc \in {"returned", "captcha", "failed"}

\* the step is the answer `response` to a submission
Answered(response) == loginPc = "request" /\ login_response' = Some(response)

\* C16: an answer 3001 clears the password field, prompts the form again
\* and stores no token; an answer with an access token stores that
\* token, clears the form and ends the flow, which returns the stored
\* token; CAPTCHA (1000) and an unlisted code end the flow with a fatal
\* error and store no token; a flow that has ended does nothing more
LoginFlow ==
    [][/\ Answered([kind |-> "error", error_code |-> 3001]) =>
            /\ login_form'.password = ""
            /\ loginPc' = "ask"
            /\ _access_token' = _access_token
       /\ \A t \in Tokens :
            Answered([kind |-> "token", access_token |-> t]) =>
                /\ _access_token' = Some(t)
                /\ login_form' = [password |-> "", token |-> ""]
                /\ loginPc' = "returned"
       /\ \A code \in {1000, 2000} :
            Answered([kind |-> "error", error_code |-> code]) =>
                /\ loginPc' \in {"captcha", "failed"}
                /\ _access_token' = _access_token
       /\ LoginOver => UNCHANGED loginVars]_vars

\* a submission was answered 3001 and a later one with token A: the flow
\* has returned, A is stored and the form is clear
LoginRetried ==
    /\ loginPc = "returned" /\ rejected
    /\ login_response = Some([kind |-> "token", access_token |-> "A"])
    /\ _access_token = Some("A")
    /\ login_form = [password |-> "", token |-> ""]

\* ------------------------------------------------------------ the no-ops
\* no Channel object has been built yet: nothing was ever tracked or
\* watched
NothingTracked ==
    \A c \in ChannelIds : ~chan[c].drops_enabled /\ ~chan[c].online

\* C17: stop_watching with the watched-channel cell empty (in the IDLE
\* handler) leaves the cell, the channel set and the state as they are;
\* CHANNELS_CLEANUP on an empty active set removes nothing and
\* unsubscribes nothing
NoOpsIdempotent ==
    [][/\ (runPc = "loop" /\ _state = "IDLE" /\ watching_channel = None) =>
            /\ watching_channel' = None
            /\ channels' = channels /\ topics' = topics /\ chan' = chan
            /\ _state' = "IDLE"
       /\ (Cleaning /\ channels = <<>>) =>
            /\ channels' = <<>> /\ topics' = topics /\ chan' = chan
            /\ watching_channel' = watching_channel]_vars

\* the clean-up has run on a set that was never filled and IDLE has
\* stopped watching with nothing ever watched: the set and the cell are
\* still empty and the state is still IDLE
NoOpsDone ==
    /\ runPc = "wait" /\ _state = "IDLE" /\ ~_state_change
    /\ NothingTracked
    /\ watching_channel = None /\ channels = <<>> /\ topics = {}
    /\ inventory # <<>>

\* ------------------------------------------------------------- closing
\* the steps of run(); a step that resumes a handler is the return of
\* the backend call the handler awaited
RunNext == HandlerNext \/ Exit \/ RunWake

\* one account with one live channel: priority-only mode with game g1.
\* Campaign X of g1 is in progress and has no ACL; campaign Y of g1 is in
\* the catalog and is restricted to channel 1, which streams g1 with
\* drops enabled; the other channels are offline
InitClosing ==
    /\ settings = [priority_only |-> TRUE, exclude |-> {}, priority |-> {"g1"},
                   priorities |-> [g \in {"g1"} |-> 1]]
    /\ camp = [c \in CampaignIds |->
                [game |-> "g1", ends_at |-> 1, status |-> "ACTIVE",
                 linked |-> TRUE, time |-> "active",
                 allowed_channels |-> IF c = "Y" THEN {1} ELSE {}]]
    /\ ongoing = <<"X">>
    /\ available = <<"X", "Y">>
    /\ platform = [c \in ChannelIds |->
                    IF c # 1
                    THEN [online |-> FALSE, viewers |-> None, game |-> None,
                          drops_enabled |-> TRUE]
                    ELSE [online |-> TRUE, viewers |-> Some(0),
                          game |-> Some("g1"), drops_enabled |-> TRUE]]
    /\ reports = [d \in DropIds |->
                    IF d = "dX" THEN {Unwatched, Finished} ELSE {Unwatched}]
    /\ claimable = {"dX", UntrackedDrop}
    /\ audience = {0}
    /\ InitProgram

\* the tasks that request a state, with run() scheduled whenever it can
\* step: the event loop resumes a task that is ready
SpecClosing == InitClosing /\ [][LifecycleNext]_vars /\ WF_vars(RunNext)

\* in EXIT, run() at the top of its loop starts no handler: it breaks;
\* and it returns from no other state
ExitStep ==
    /\ (_state = "EXIT" /\ runPc = "loop") => runPc' = "done"
    /\ (runPc # "done" /\ runPc' = "done") =>
            (_state = "EXIT" /\ runPc = "loop")

\* C18: once EXIT is requested, with run() suspended in its wait or in a
\* handler, the loop breaks eventually, no handler is started after the
\* one in flight, and the loop breaks in no state but EXIT
ExitBreaks ==
    /\ (_state = "EXIT") ~> (runPc = "done")
    /\ [][ExitStep]_vars

\* EXIT was requested while GAMES_UPDATE was suspended in a claim: the
\* handler finished, no clean-up followed, and the loop has broken
ExitBrokenAfterGamesUpdate ==
    /\ runPc = "done" /\ _state = "EXIT" /\ full_cleanup

\* ------------------------------------------------------- the state chain
\* the handler run() is in: the one it starts at the top of the loop, or
\* the one it is suspended in
Handling ==
    IF runPc = "loop" THEN _state
    ELSE IF runPc \in {"inventory", "inv_add"} THEN "INVENTORY_FETCH"
    ELSE IF runPc = "claim" THEN "GAMES_UPDATE"
    ELSE IF runPc \in {"acl_online", "cf_games", "live_streams"}
         THEN "CHANNELS_FETCH"
    ELSE "none"

\* the step completes a handler: run() reaches the wait of line 386
HandlerEnds ==
    /\ Handling \notin {"none", "EXIT"}
    /\ runPc' \in {"loop", "wait"}

\* the two handlers that clear the flag: IDLE, and a CHANNEL_SWITCH that
\* finds a channel to watch
Blocking ==
    /\ runPc = "loop"
    /\ \/ _state = "IDLE"
       \/ _state = "CHANNEL_SWITCH" /\ switch_choice # None

\* the states a handler requests when it completes
Successor(state) ==
    CASE state = "INVENTORY_FETCH" -> {"GAMES_UPDATE"}
      [] state = "GAMES_UPDATE" -> {"CHANNELS_CLEANUP"}
      [] state = "CHANNELS_CLEANUP" -> {"IDLE", "CHANNELS_FETCH"}
      [] state = "CHANNELS_FETCH" -> {"CHANNEL_SWITCH"}
      [] state = "CHANNEL_SWITCH" -> {"IDLE"}
      [] OTHER -> {}

ChainStep ==
    /\ (runPc # "wait" /\ runPc' = "wait") =>
            (Blocking /\ HandlerEnds /\ ~_state_change')
    /\ (HandlerEnds /\ ~Blocking) =>
            /\ runPc' = "loop" /\ _state_change'
            /\ _state' = "EXIT" \/ _state' \in Successor(Handling)
    /\ (_state_change /\ ~_state_change') => Blocking
    /\ (runPc = "wait" /\ _state_change) => _state_change'

InitRestart ==
    /\ settings = [priority_only |-> TRUE, exclude |-> {}, priority |-> {"g1"},
                   priorities |-> [g \in {"g1"} |-> 1]]
    /\ camp = [c \in CampaignIds |->
                [game |-> "g1", ends_at |-> 1, status |-> "ACTIVE",
                 linked |-> TRUE, time |-> "active",
                 allowed_channels |-> {}]]
    /\ ongoing = <<"X">>
    /\ available = <<"X">>
    /\ platform = [c \in ChannelIds |->
                    IF c \in {1, 2}
                    THEN [online |-> TRUE, viewers |-> Some(0),
                          game |-> Some("g1"), drops_enabled |-> TRUE]
                    ELSE [online |-> FALSE, viewers |-> None, game |-> None,
                          drops_enabled |-> TRUE]]
    /\ reports = [d \in DropIds |-> {Unwatched}]
    /\ claimable = {"dX"}
    /\ audience = {0}
    /\ InitProgram

\* run(), the watch loop, the handlers of the drop messages and the
\* user's choice of a channel; no campaign has an ACL, so CHANNELS_FETCH
\* has no check_online to wait for
RestartNext ==
    \/ RunStart \/ Idle \/ InventoryFetch \/ FetchInventoryBuild
    \/ FetchInventoryAdd \/ GamesUpdate \/ GamesUpdateClaimed
    \/ ChannelsCleanup \/ ChannelsFetch \/ ChannelsFetchGame
    \/ ChannelsFetchLive \/ ChannelsFetchFinish \/ ChannelSwitch
    \/ RunWake \/ WatchNext \/ UserSelect
    \/ DropProgress \/ DropClaim \/ DropClaimed \/ DropClaimSettled

SpecRestart == InitRestart /\ [][RestartNext]_vars

\* the watch loop sleeps between two heartbeats of a channel that is no
\* longer the watched one
Switched ==
    /\ watching_channel # None
    /\ watching_channel[1] # w_channel

\* C20, as claimed: when the watch loop sleeps after a heartbeat and
\* restart_watching was called earlier in the cycle, or the watched
\* channel has been switched since the heartbeat, the restart flag is set
\* and ends the sleep
RestartCancels ==
    (watchPc = "sleep" /\ cycle.heartbeat /\ (cycle.restart \/ Switched))
        => _watching_restart

\* ------------------------------------------------------ session validation
\* check_login at start-up with no session, with or without a cookie in
\* the jar, and check_login called on a session that is complete
InitCheck ==
    /\ InitEnv /\ InitTwitch /\ RequestIdle
    /\ loginPc = "off" /\ checkPc = "start"
    /\ check_attempt = 0 /\ validations = 0
    /\ cookie = None /\ status = None
    /\ \/ /\ _access_token = None /\ _user_id = None
          /\ _is_logged_in = FALSE
          /\ jar \in Opt(StoredTokens)
       \/ /\ _access_token = Some("A") /\ _user_id = Some(1)
          /\ _is_logged_in = TRUE /\ jar = Some("A")

CheckNext ==
    \/ CheckLogin \/ CheckCookie \/ CheckLoggedIn \/ CheckValidate
    \/ LoginAsk \/ LoginResponse

SpecCheck == InitCheck /\ [][CheckNext]_vars

\* the step is the answer `answer` of the validation endpoint
Validated(answer) == checkPc = "validate" /\ status' = Some(answer)

ValidationStep ==
    /\ Validated(401) =>
            /\ jar' = None
            /\ check_attempt = 0 => checkPc' = "attempt"
    /\ Validated(500) => checkPc' = "verification_failure"
    /\ (_user_id' # _user_id \/ _is_logged_in' # _is_logged_in) =>
            (Validated(200) /\ _user_id' # None /\ _is_logged_in')

\* C21, as claimed: a call validates the token at most twice; an answer
\* 401 clears the cookie and starts the flow again; an answer that is
\* neither 200 nor 401 ends the call with the login-verification
\* failure; the user id and the logged-in flag are set only by an answer
\* 200
SessionValidated ==
    /\ [](validations <= 2)
    /\ [][ValidationStep]_vars

\* ------------------------------------------------------ the request wrapper
\* one call of request() on the session of a running program
InitRequest ==
    /\ InitEnv /\ InitTwitch /\ LoggedIn
    /\ reqPc = "start" /\ attempts \in 1..MaxAttempts
    /\ req_attempt = 0 /\ cause = None /\ log = <<>>

RequestNext == RequestCall \/ RequestAnswer \/ RequestBlock

SpecRequest == InitRequest /\ [][RequestNext]_vars

\* the events of the call that are attempts, and those that are
\* connection-level failures
IsAttempt(i) == log[i] \in RequestOutcomes
IsConnectionFailure(i) == log[i] \in {"connection", "block_connection"}
Attempts == {i \in DOMAIN log : IsAttempt(i)}

\* C22, as claimed: a call makes at most `attempts` attempts; every
\* attempt but the first follows a connection-level failure; after the
\* first response handed to the caller no attempt follows; when the
\* attempts run out, the request error carries the last failure as its
\* cause; any other failure ends the call at once
RequestRetries ==
    /\ Cardinality(Attempts) <= attempts
    /\ \A i \in Attempts : i > 1 => IsConnectionFailure(i - 1)
    /\ \A i, j \in Attempts : log[i] = "response" => j <= i
    /\ (Len(log) = attempts /\ \A i \in DOMAIN log : log[i] = "connection")
            => reqPc = "request_exception"
    /\ reqPc = "request_exception" =>
            /\ cause = Some(Len(log))
            /\ IsConnectionFailure(Len(log))
    /\ \A i \in DOMAIN log : log[i] \in {"other", "block_other"} =>
            i = Len(log) /\ reqPc = "raised"

\* ------------------------------------------------- inconsistent messages
\* one account with one live channel: priority-only mode with game g1,
\* campaign X of g1 in progress and without ACL; the only drop-claim
\* message names a drop of no campaign
InitEvents ==
    /\ settings = [priority_only |-> TRUE, exclude |-> {}, priority |-> {"g1"},
                   priorities |-> [g \in {"g1"} |-> 1]]
    /\ camp = [c \in CampaignIds |->
                [game |-> "g1", ends_at |-> 1, status |-> "ACTIVE",
                 linked |-> TRUE, time |-> "active",
                 allowed_channels |-> {}]]
    /\ ongoing = <<"X">>
    /\ available = <<"X">>
    /\ platform = [c \in ChannelIds |->
                    IF c = 1
                    THEN [online |-> TRUE, viewers |-> Some(0),
                          game |-> Some("g1"), drops_enabled |-> TRUE]
                    ELSE [online |-> FALSE, viewers |-> None, game |-> None,
                          drops_enabled |-> TRUE]]
    /\ reports = [d \in DropIds |-> {Unwatched}]
    /\ claimable = {UntrackedDrop}
    /\ audience = {0}
    /\ InitProgram

\* run(), the watch loop and the handlers of the messages; no drop is
\* claimed and nothing restarts the watch loop
EventsNext ==
    \/ RunStart \/ Idle \/ InventoryFetch \/ FetchInventoryBuild
    \/ FetchInventoryAdd \/ GamesUpdate
    \/ ChannelsCleanup \/ ChannelsFetch \/ ChannelsFetchGame
    \/ ChannelsFetchLive \/ ChannelsFetchFinish \/ ChannelSwitch
    \/ RunWake \/ WatchGet \/ WatchSend \/ WatchTimeout \/ WatchTimedOut
    \/ WatchResolved \/ WatchPoll \/ WatchSlept
    \/ DropProgress \/ DropClaim \/ StreamState

SpecEvents == InitEvents /\ [][EventsNext]_vars

\* the step handles a stream-state message of an unknown type, or a drop
\* message that names a drop the index does not hold
UnknownStreamState ==
    \E channel_id \in topics, viewers \in audience :
        StreamStateMessage(channel_id, "other", viewers)
UntrackedClaim ==
    \E drop_id \in claimable : drop_id \notin _drops /\ DropClaimMessage(drop_id)
UntrackedProgress ==
    \E drop_id \in KnownDrops \cup {UntrackedDrop}, value \in 0..MaxMinutes :
        drop_id \notin _drops /\ DropProgressMessage(drop_id, value)

\* the channel set, the drop records, the watched channel and the state
StateKept ==
    UNCHANGED <<channels, chan, inventory, _drops, minutes, claim_state,
                watching_channel, _state>>
RendezvousKept == UNCHANGED <<_drop_update, future>>

\* C23, as claimed: a stream-state message of an unknown type, a
\* drop-progress message for an untracked drop and a drop-claim message
\* for an untracked drop leave the channel set, the drop records, the
\* watched channel, the pending rendezvous and the state unchanged
InconsistenciesIgnored ==
    [][(UnknownStreamState \/ UntrackedClaim \/ UntrackedProgress)
            => (StateKept /\ RendezvousKept)]_vars

\* C23, amended: the three messages leave the channel set, the drop
\* records, the watched channel and the state unchanged; the first two
\* leave the rendezvous unchanged, and a drop-progress message for an
\* untracked drop resolves a pending rendezvous negatively and empties
\* the slot
InconsistenciesHandled ==
    [][/\ (UnknownStreamState \/ UntrackedClaim)
            => (StateKept /\ RendezvousKept)
       /\ UntrackedProgress =>
            /\ StateKept
            /\ IF _drop_update # None /\ future = "pending"
               THEN future' = "false" /\ _drop_update' = None
               ELSE RendezvousKept]_vars

\* a drop-progress message for an untracked drop has resolved the
\* rendezvous of a cycle negatively and has emptied the slot
UntrackedResolved ==
    /\ cycle.untracked /\ future = "false" /\ _drop_update = None
    /\ watching_channel # None /\ _drops # {}

\* ------------------------------------------------------- a failed claim
\* the step is one of a drop-claim handler whose claim the backend
\* reported as failed: the answer itself, and the end of the handler
ClaimFails == claimPc = "claim" /\ c_mined' = Some(FALSE)
FailedClaimSettles ==
    claimPc = "settle" /\ c_mined = Some(FALSE) /\ claimPc' = "idle"

\* the handler leaves the watched channel and the watch loop's position
KeepsWatching == UNCHANGED <<watching_channel, watchPc, w_channel>>

Configured(c) ==
    /\ chan[c].game # None
    /\ chan[c].game[1] \in DOMAIN games
    /\ chan[c].game[1] \in DOMAIN settings.priorities

MaintenanceStep == mnt_i' # mnt_i

\* C26: an iteration of the maintenance loop leaves the inventory, the
\* drop index, the channel set and the watched channel as they are, and
\* every other field of the orchestrator too; on the iterations the
\* period divides it requests INVENTORY_FETCH through change_state, on
\* the others it leaves the state and the flag alone
MaintenanceOnlyRequests ==
    [][MaintenanceStep =>
        /\ UNCHANGED <<inventory, _drops, channels, chan, minutes,
                       claim_state, watching_channel>>
        /\ UNCHANGED <<games, _watching_restart, _drop_update, topics>>
        /\ IF mnt_i % InventoryPeriod = 0
           THEN /\ _state_change'
                /\ _state' = IF _state = "EXIT" THEN "EXIT"
                             ELSE "INVENTORY_FETCH"
           ELSE UNCHANGED <<_state, _state_change>>]_vars

\* the maintenance loop has requested INVENTORY_FETCH while run() waited
\* with a channel watched, and the channel is still watched
MaintenanceRequested ==
    /\ mnt_i = 1 /\ _state = "INVENTORY_FETCH" /\ _state_change
    /\ runPc = "wait" /\ watching_channel # None
    /\ inventory # <<>> /\ channels # <<>>

\* ------------------------------------------------ the negative rendezvous
\* the watch loop takes a negative result out of the rendezvous
ResolvedNegatively ==
    watchPc = "rendezvous" /\ future = "false" /\ watchPc' # "rendezvous"

\* the poll of a cycle resolved negatively is answered, and the answer
\* names no tracked drop that the watched channel can earn
PollFails ==
    /\ watchPc = "poll" /\ watchPc' # "poll" /\ cycle.ended = "unhandled"
    /\ ~PollMatches(cycle'.poll[1])

\* C27, as claimed: a cycle whose rendezvous resolved negatively polls
\* CurrentDrop, and when the answer names no tracked drop the watched
\* channel can earn, or no drop at all, the cycle applies the local
\* estimate of one minute to the best candidate, if there is one, once
NegativeLadder ==
    [][/\ ResolvedNegatively => watchPc' = "poll"
       /\ PollFails =>
            /\ EstimatedOnce
            /\ cycle'.bumps = IF get_active_drop(Some(w_channel)) = None
                              THEN 0 ELSE 1]_vars

\* ---------------------------------------------- the relink of CHANNELS_FETCH
\* the step completes CHANNELS_FETCH
FetchCompletes == Handling = "CHANNELS_FETCH" /\ HandlerEnds

\* after the step, channel c is in the channel set and can be watched
Qualifies(c) == Contains(channels', c) /\ Watchable(c)'

\* C28: when CHANNELS_FETCH completes, the watched-channel cell is empty
\* or holds a channel of the rebuilt set that can be watched; a channel
\* watched before that is not in the rebuilt set, or cannot be watched any
\* more, has been stopped, and one that still qualifies is kept
FetchRelinks ==
    [][FetchCompletes =>
        /\ \/ watching_channel' = None
           \/ \E c \in ChannelIds : watching_channel' = Some(c) /\ Qualifies(c)
        /\ \A c \in ChannelIds : watching_channel = Some(c) =>
              watching_channel' = IF Qualifies(c) THEN Some(c) ELSE None]_vars

\* CHANNELS_FETCH has completed with a full channel set, and the channel
\* watched is one of the set that can be watched
FetchRelinked ==
    /\ Switching /\ Len(channels) = max_channels
    /\ watching_channel # None
    /\ Contains(channels, watching_channel[1])
    /\ Watchable(watching_channel[1])

\* ------------------------------------------------------------------ IDLE
\* run() has handled IDLE and waits; no task has requested a state since
Idling == _state = "IDLE" /\ runPc = "wait" /\ ~_state_change

\* the step takes channel c online
GoesOnline(c) == ~chan[c].online /\ chan'[c].online

\* C29, as claimed: from the IDLE handler until a state is requested, no
\* channel is watched
IdleUnwatched == Idling => watching_channel = None

\* C29, amended: the IDLE handler empties the watched-channel cell; while
\* run() idles, a channel that goes online and can be watched is watched
\* at once, with the state still IDLE, and no other step writes the cell
IdleWatchesOnline ==
    [][/\ (runPc = "loop" /\ _state = "IDLE" /\ runPc' # "loop")
            => watching_channel' = None
       /\ Idling =>
            /\ \A c \in ChannelIds : (GoesOnline(c) /\ Watchable(c)')
                    => (watching_channel' = Some(c) /\ _state' = "IDLE")
            /\ watching_channel' # watching_channel =>
                    \E c \in ChannelIds :
                        /\ GoesOnline(c) /\ Watchable(c)'
                        /\ watching_channel' = Some(c)]_vars

\* run() idles and a channel is watched: one that went online since
IdleWatching ==
    /\ Idling /\ watching_channel # None
    /\ Watchable(watching_channel[1])

\* ------------------------------------------------- requests for a refresh
\* run() with the two tasks that request INVENTORY_FETCH, the maintenance
\* loop and the handler of the drop-claim messages; run() is scheduled
\* whenever it can step, the other tasks step when their events arrive
RefreshRun == HandlerNext \/ RunWake
RefreshNext ==
    \/ RefreshRun \/ MaintenanceLoop
    \/ DropClaim \/ DropClaimed \/ DropClaimSettled

\* the account of InitClosing, with channel 1 live or offline
InitRefresh ==
    /\ settings = [priority_only |-> TRUE, exclude |-> {}, priority |-> {"g1"},
                   priorities |-> [g \in {"g1"} |-> 1]]
    /\ camp = [c \in CampaignIds |->
                [game |-> "g1", ends_at |-> 1, status |-> "ACTIVE",
                 linked |-> TRUE, time |-> "active",
                 allowed_channels |-> IF c = "Y" THEN {1} ELSE {}]]
    /\ ongoing = <<"X">>
    /\ available = <<"X", "Y">>
    /\ \E live \in BOOLEAN :
        platform = [c \in ChannelIds |->
                     IF c = 1 /\ live
                     THEN [online |-> TRUE, viewers |-> Some(0),
                           game |-> Some("g1"), drops_enabled |-> TRUE]
                     ELSE [online |-> FALSE, viewers |-> None, game |-> None,
                           drops_enabled |-> TRUE]]
    /\ reports = [d \in DropIds |->
                    IF d = "dX" THEN {Unwatched, Finished} ELSE {Unwatched}]
    /\ claimable = {"dX", UntrackedDrop}
    /\ audience = {0}
    /\ InitProgram

SpecRefresh == InitRefresh /\ [][RefreshNext]_vars /\ WF_vars(RefreshRun)

\* INVENTORY_FETCH has been requested through change_state
FetchRequested == _state = "INVENTORY_FETCH" /\ _state_change

\* run() is inside fetch_inventory
Fetching == runPc \in {"inventory", "inv_add"}

\* C30, as claimed: a requested INVENTORY_FETCH is replaced as the state
\* only by the INVENTORY_FETCH handler that serves it, and every request
\* is followed by an inventory fetch, also when it arrives while run() is
\* suspended in another handler
FetchRequestsServed ==
    /\ [][(_state = "INVENTORY_FETCH" /\ _state' # "INVENTORY_FETCH")
                => Handling = "INVENTORY_FETCH"]_vars
    /\ FetchRequested ~> Fetching

\* ------------------------------------------------ the subscribed topics
\* C31: wherever run() is suspended, and another task may step, the
\* subscribed stream-state topics are those of the channels of the channel
\* set: no removed or trimmed channel is subscribed, and every channel of
\* the set is
TopicsMatchChannels == Yielded => topics = Range(channels)

\* run() waits with a full channel set subscribed, and a live channel that
\* the fetch trimmed is not subscribed
TopicsTrimmed ==
    /\ runPc = "wait" /\ Len(channels) = max_channels
    /\ topics = Range(channels)
    /\ \E c \in ChannelIds : c \notin topics /\ chan[c].online

\* ------------------------------------------------- what enters the cell
\* the step places channel c into the watched-channel cell: the cell takes
\* a channel it did not hold, CHANNELS_FETCH completes with a channel
\* relinked, or CHANNEL_SWITCH commits a channel and clears the flag
Places(c) ==
    /\ watching_channel' = Some(c)
    /\ \/ watching_channel # Some(c)
       \/ FetchCompletes
       \/ runPc = "loop" /\ _state = "CHANNEL_SWITCH" /\ ~_state_change'

\* C32: a step that places a channel into the watched-channel cell leaves
\* the channel watchable: can_watch holds for it as the step ends, in the
\* relink of CHANNELS_FETCH, in the commit of CHANNEL_SWITCH and in
\* on_online
PlacedWatchable ==
    [][\A c \in ChannelIds : Places(c) => Watchable(c)']_vars

\* CHANNEL_SWITCH has committed a channel and run() waits with the flag
\* clear; the channel is one of the set and can be watched
SwitchCommitted ==
    /\ runPc = "wait" /\ _state = "CHANNEL_SWITCH" /\ ~_state_change
    /\ watching_channel # None
    /\ Contains(channels, watching_channel[1])
    /\ Watchable(watching_channel[1])

====
